---------------------------- MODULE Spec2Model ----------------------------
(***************************************************************************)
(* A state-machine model of the OHS Insider / Bridge single-sign-on       *)
(* service (src/lms/views.py, src/lms/views_openid.py, src/lms/models.py). *)
(*                                                                         *)
(* The database tables are sets or sequences of rows, the browser session  *)
(* is one record, and every HTTP handler is an action.  Handlers whose     *)
(* claims are about concurrent execution (the Token Endpoint and Login     *)
(* Ingestion) are split at their database reads and writes and run as      *)
(* several worker processes; the other handlers are one atomic action.     *)
(* Strings that the code parses (unique_id, state) are sequences of        *)
(* one-character strings; strings that are only compared are TLA+ strings. *)
(***************************************************************************)
EXTENDS Integers, Sequences, FiniteSets, TLC

VARIABLES
    now,        \* the clock, in seconds (timezone.now() / time.time())
    auths,      \* table ohs_auth: set of OHSAuth rows
    accounts,   \* table ohs_account: set of OHSAccount rows
    users,      \* table auth_user: set of Django User rows
    logs,       \* table ohs_access_log: sequence of OHSAccessLog rows
    tasks,      \* table bridge_sync_task: sequence of BridgeSyncTask rows
    codes,      \* table oauth_authorization_code: set of rows
    tokens,     \* table oauth_access_token: set of rows
    session,    \* the browser's session (django.contrib.sessions + auth)
    tk,         \* Token Endpoint workers: position, locals and response
    lg,         \* Login Ingestion workers: position, locals and response
    azResp,     \* the last response of the Authorization Endpoint
    uiResp,     \* the last response of the UserInfo Endpoint
    brResp,     \* the last response of the Session Bridge
    cbResp,     \* the last response of the Legacy Callback Endpoint
    hcResp,     \* the last response of the health check
    codec       \* a run of the token codec: its input, the token and the result

vars == <<now, auths, accounts, users, logs, tasks, codes, tokens, session,
          tk, lg, azResp, uiResp, brResp, cbResp, hcResp, codec>>

-----------------------------------------------------------------------------
(* Bounds of the model *)

\* the clock's value in the initial state
StartTime == 1000

\* how many authorization codes the Authorization Endpoint may mint
MaxCodes == 1

\* how many access tokens the Token Endpoint may mint
MaxTokens == 2

\* how many rows ohs_access_log and bridge_sync_task may hold
MaxLog == 2

-----------------------------------------------------------------------------
(* Program constants *)

\* timedelta(minutes=5), in seconds
CODE_TTL == 300

\* timedelta(hours=1), in seconds; also the expires_in of the token response
TOKEN_TTL == 3600

\* the freshness window of a login notification, in seconds
FRESHNESS == 300

\* len(decoded_state) > 10
MIN_ID_LEN == 10

\* BridgeSyncTask.TASK_TYPE_USER and BridgeSyncTask.STATUS_PENDING
TASK_TYPE_USER == "U"
STATUS_PENDING == "P"

-----------------------------------------------------------------------------
(* Values *)

\* Python's None for a string (and the empty string: the code tests truthiness)
NoStr == <<>>

\* Python's None for a row id (row ids start at 1)
NoId == 0
\* a DateTimeField that is NULL
NoTime == 0

\* an absent request parameter, header or payload field
Missing == "<missing>"

\* unique ids: a long one, a short one with '@', a short one without
UID_A == <<"2", "0", "1", "9", "5", "1", "3", "-", "A", "I", "R">>
UID_B == <<"b", "@", "x">>
UID_C == <<"u", "7">>
\* an id no Account has (longer than MIN_ID_LEN)
UID_X == <<"9", "9", "9", "9", "9", "9", "9", "-", "Z", "Z", "Z">>

\* the path the downstream platform sends back in state
PATH == <<"/", "l">>


-----------------------------------------------------------------------------
(* Strings as sequences of characters *)

\* ch in s
Contains(s, ch) == \E i \in 1..Len(s) : s[i] = ch

\* s.find(ch), 1-based; 0 when ch is not in s
IndexOf(s, ch) ==
    IF Contains(s, ch)
    THEN CHOOSE i \in 1..Len(s) : s[i] = ch /\ \A j \in 1..(i - 1) : s[j] # ch
    ELSE 0

\* s.split(ch, 1): the parts before and after the first ch (one part without ch)
SplitOnce(s, ch) ==
    IF Contains(s, ch)
    THEN <<SubSeq(s, 1, IndexOf(s, ch) - 1), SubSeq(s, IndexOf(s, ch) + 1, Len(s))>>
    ELSE <<s>>

\* s.startswith(ch)
StartsWith(s, ch) == Len(s) >= 1 /\ s[1] = ch

\* the percent escapes of the characters the code looks for
PctDecode(h1, h2) ==
    CASE <<h1, h2>> = <<"7", "C">> -> <<"|">>
      [] <<h1, h2>> = <<"2", "F">> -> <<"/">>
      [] <<h1, h2>> = <<"4", "0">> -> <<"@">>
      [] <<h1, h2>> = <<"2", "5">> -> <<"%">>
      [] <<h1, h2>> = <<"2", "6">> -> <<"&">>
      [] <<h1, h2>> = <<"3", "D">> -> <<"=">>
      [] <<h1, h2>> = <<"2", "0">> -> <<" ">>
      [] OTHER -> <<"%", h1, h2>>

\* urllib.parse.unquote: every %XX becomes the character it escapes
RECURSIVE unquote(_)
unquote(s) ==
    IF s = <<>> THEN <<>>
    ELSE IF s[1] = "%" /\ Len(s) >= 3
         THEN PctDecode(s[2], s[3]) \o unquote(SubSeq(s, 4, Len(s)))
         ELSE <<s[1]>> \o unquote(Tail(s))

\* no escaping at all
quoteNothing(s) == s

\* urllib.parse.quote: '@', '|', '%', '&', '=' and ' ' are escaped, '/' is
\* safe, the rest (letters, digits, '-') are kept
RECURSIVE quote(_)
quote(s) ==
    IF s = <<>> THEN <<>>
    ELSE (CASE s[1] = "@" -> <<"%", "4", "0">>
            [] s[1] = "|" -> <<"%", "7", "C">>
            [] s[1] = "%" -> <<"%", "2", "5">>
            [] s[1] = "&" -> <<"%", "2", "6">>
            [] s[1] = "=" -> <<"%", "3", "D">>
            [] s[1] = " " -> <<"%", "2", "0">>
            [] OTHER -> <<s[1]>>) \o quote(Tail(s))

\* urllib.parse.quote_plus as urlencode applies it to a value: as quote, but
\* '/' is escaped too and ' ' becomes '+'
RECURSIVE quote_plus(_)
quote_plus(s) ==
    IF s = <<>> THEN <<>>
    ELSE (CASE s[1] = "@" -> <<"%", "4", "0">>
            [] s[1] = "|" -> <<"%", "7", "C">>
            [] s[1] = "%" -> <<"%", "2", "5">>
            [] s[1] = "/" -> <<"%", "2", "F">>
            [] s[1] = "&" -> <<"%", "2", "6">>
            [] s[1] = "=" -> <<"%", "3", "D">>
            [] s[1] = " " -> <<"+">>
            [] OTHER -> <<s[1]>>) \o quote_plus(Tail(s))

-----------------------------------------------------------------------------
(* Rows and queries *)

\* hmac.new(secret, msg, sha256).hexdigest(): an ideal MAC, one digest per
\* (secret, message) pair
Hmac(secret, msg) == <<"hmac", secret, msg>>

\* the next value of a table's AutoField: one more than the greatest id in use
NextId(rows) ==
    IF rows = {} THEN 1
    ELSE (CHOOSE r \in rows : \A q \in rows : q.id <= r.id).id + 1

\* QuerySet.first() on a non-empty set of rows: the row of least id
First(rows) == CHOOSE r \in rows : \A q \in rows : r.id <= q.id

\* OHSAuth.objects.filter(is_active=True)
ActiveAuths == {a \in auths : a.is_active}

\* OHSAccount.objects.filter(unique_id=uid)
AccountsByUid(uid) == {a \in accounts : a.unique_id = uid}

\* OHSAccount.objects.filter(id=id)
AccountsById(id) == {a \in accounts : a.id = id}

\* OHSAccount.objects.filter(user_email=email)
AccountsByEmail(email) == {a \in accounts : a.user_email = email}

\* an OHSAccount row
Account(id, uid, email, first, last, sub, active) ==
    [id |-> id, unique_id |-> uid, user_email |-> email, first_name |-> first,
     last_name |-> last, bridge_subaccount_id |-> sub, is_active |-> active]

\* the accounts and the client set up before the flows under study start
ACCT_A == Account(1, UID_A, "a@ohs", "Ann", "Lee", "tenant", TRUE)
ACCT_B == Account(2, UID_B, "b@ohs", "Bob", "Ray", "", TRUE)
AUTH_1 == [id |-> 1, client_id |-> "cid1", client_secret |-> "s1", is_active |-> TRUE,
           bridge_base_url |-> "https://safetynow.bridgeapp.com"]
AUTH_2 == [id |-> 2, client_id |-> "cid2", client_secret |-> "s2", is_active |-> FALSE,
           bridge_base_url |-> "https://safetynow.bridgeapp.com"]

\* a response without a payload
Reply(status, body) == [status |-> status, body |-> body]

\* no request handled yet
NoReply == Reply(0, "")

\* the empty session
NoSession == [account_id |-> NoId, unique_id |-> NoStr, user |-> NoStr]

-----------------------------------------------------------------------------
(* Token Endpoint: views_openid.token, run by the workers TokenWorkers *)

TokenWorkers == {"w1", "w2"}

\* an Authorization header "Basic b64(id:secret)" as the code sees it: whether
\* the header is there, and the parts of the decoded text split at ':'
\* (no parts when base64 or UTF-8 decoding fails)
BasicHeader(id, secret) == [present |-> TRUE, parts |-> <<id, secret>>]
UndecodableHeader == [present |-> TRUE, parts |-> <<>>]
NoHeader == [present |-> FALSE, parts |-> <<>>]

\* the form field code, when the request carries none
NoCode == 0

\* a worker between requests, and the row a worker holds before it fetched one
NoCodeRow == [id |-> NoId, code |-> NoCode, account |-> NoId, client_id |-> "",
              expires_at |-> 0, used |-> FALSE]
TokenReply(status, body, token, expires_in) ==
    [status |-> status, body |-> body, access_token |-> token,
     token_type |-> IF status = 200 THEN "Bearer" ELSE "", expires_in |-> expires_in]
IdleToken == [pc |-> "idle", auth_header |-> NoHeader, code |-> NoCode, client_id |-> "",
              auth_code |-> NoCodeRow, reply |-> TokenReply(0, "", 0, 0)]

\* the credential check without is_active=True in the lookup
CredentialsOKIgnoringActive(hdr) ==
    /\ Len(hdr.parts) = 2
    /\ \E a \in auths : /\ a.client_id = hdr.parts[1]
                        /\ a.client_secret = hdr.parts[2]

\* lines 181-192: the header decodes into client_id:client_secret, an active
\* OHSAuth has that client_id, and its secret is the one given
CredentialsOK(hdr) ==
    /\ Len(hdr.parts) = 2
    /\ \E a \in auths : /\ a.client_id = hdr.parts[1]
                        /\ a.is_active
                        /\ a.client_secret = hdr.parts[2]

\* the lookup with expires_at__gte in place of expires_at__gt
RedeemableCodesInclusive(code, t) ==
    {c \in codes : c.code = code /\ ~c.used /\ c.expires_at >= t}

\* lines 196-200: the rows OAuthAuthorizationCode.objects.get may return at time t
RedeemableCodes(code, t) ==
    {c \in codes : c.code = code /\ ~c.used /\ c.expires_at > t}

\* the save left out: the flag is set on the in-memory row only
SaveUsedForgotten(row) == codes

\* lines 204-205: auth_code.used = True; auth_code.save() writes every field of
\* the in-memory row over the stored row of the same primary key
SaveUsed(row) ==
    {IF c.id = row.id THEN [row EXCEPT !.used = TRUE] ELSE c : c \in codes}

\* a token that lives as long as an authorization code
MintedTokenShortLived(row, client_id) ==
    [id |-> NextId(tokens), token |-> NextId(tokens), account |-> row.account,
     client_id |-> client_id, expires_at |-> now + CODE_TTL]

\* lines 210-219: the AccessToken row minted for a fetched code row
MintedToken(row, client_id) ==
    [id |-> NextId(tokens), token |-> NextId(tokens), account |-> row.account,
     client_id |-> client_id, expires_at |-> now + TOKEN_TTL]

\* lines 174-207: parameters, credentials and the lookup of the code.  The
\* worker leaves with the fetched row in hand, or with its error response.
TokenLookup(w, hdr, code) ==
    /\ tk[w].pc # "save"
    /\ IF ~hdr.present \/ code = NoCode
       THEN tk' = [tk EXCEPT ![w] = [IdleToken EXCEPT !.pc = "done", !.auth_header = hdr, !.code = code,
                     !.reply = TokenReply(400, "Missing code or authorization header", 0, 0)]]
       ELSE IF ~CredentialsOK(hdr)
       THEN tk' = [tk EXCEPT ![w] = [IdleToken EXCEPT !.pc = "done", !.auth_header = hdr, !.code = code,
                     !.reply = TokenReply(403, "Invalid credentials", 0, 0)]]
       ELSE IF RedeemableCodes(code, now) = {}
       THEN tk' = [tk EXCEPT ![w] = [IdleToken EXCEPT !.pc = "done", !.auth_header = hdr, !.code = code,
                     !.reply = TokenReply(403, "Invalid or expired authorization code", 0, 0)]]
       ELSE \E row \in RedeemableCodes(code, now) :
              tk' = [tk EXCEPT ![w] = [IdleToken EXCEPT !.pc = "save", !.auth_header = hdr,
                       !.code = code, !.client_id = hdr.parts[1], !.auth_code = row]]
    /\ UNCHANGED <<now, auths, accounts, users, logs, tasks, codes, tokens, session,
                   lg, azResp, uiResp, brResp, cbResp, hcResp, codec>>

\* lines 203-225: mark the fetched row used, mint the AccessToken, answer 200
TokenRedeem(w) ==
    /\ tk[w].pc = "save"
    /\ Cardinality(tokens) < MaxTokens
    /\ codes' = SaveUsed(tk[w].auth_code)
    /\ tokens' = tokens \cup {MintedToken(tk[w].auth_code, tk[w].client_id)}
    /\ tk' = [tk EXCEPT ![w].pc = "done",
                        ![w].reply = TokenReply(200, "", NextId(tokens), TOKEN_TTL)]
    /\ UNCHANGED <<now, auths, accounts, users, logs, tasks, session,
                   lg, azResp, uiResp, brResp, cbResp, hcResp, codec>>

-----------------------------------------------------------------------------
(* UserInfo Endpoint: views_openid.userinfo *)

\* an Authorization header as userinfo sees it: the parts of the header split
\* at ' '
BearerHeader(scheme, token) == [present |-> TRUE, parts |-> <<scheme, token>>]

\* a header without a space: split(' ') gives one part
MalformedHeader == [present |-> TRUE, parts |-> <<"Bearer">>]

\* the lookup joined with the accounts that are active
ValidTokensOfActiveAccounts(token, t) ==
    {k \in tokens : /\ k.token = token
                    /\ k.expires_at > t
                    /\ \E a \in accounts : a.id = k.account /\ a.is_active}

\* the lookup with expires_at__gte in place of expires_at__gt
ValidTokensInclusive(token, t) == {k \in tokens : k.token = token /\ k.expires_at >= t}

\* lines 245-248: the rows OAuthAccessToken.objects.get may return at time t
ValidTokens(token, t) == {k \in tokens : k.token = token /\ k.expires_at > t}

\* lines 253-259: the claims of an account row
Claims(a) ==
    [uid |-> a.unique_id, email |-> a.user_email, first_name |-> a.first_name,
     family_name |-> a.last_name, sub |-> a.unique_id]

NoClaims == [uid |-> NoStr, email |-> "", first_name |-> "", family_name |-> "",
             sub |-> NoStr]
\* the last exchange: the header received and the response given
UserInfoReply(hdr, status, body, claims) ==
    [hdr |-> hdr, status |-> status, body |-> body, claims |-> claims]

\* lines 229-261: the whole handler (two reads, no write)
UserInfo(hdr) ==
    /\ IF ~hdr.present \/ Len(hdr.parts) # 2
       THEN uiResp' = UserInfoReply(hdr, 403, "Missing or invalid authorization header", NoClaims)
       ELSE IF hdr.parts[1] # "Bearer"
       THEN uiResp' = UserInfoReply(hdr, 403, "Invalid token type", NoClaims)
       ELSE IF ValidTokens(hdr.parts[2], now) = {}
       THEN uiResp' = UserInfoReply(hdr, 403, "Invalid or expired access token", NoClaims)
       ELSE \E k \in ValidTokens(hdr.parts[2], now) :
            \E a \in AccountsById(k.account) :
                uiResp' = UserInfoReply(hdr, 200, "", Claims(a))
    /\ UNCHANGED <<now, auths, accounts, users, logs, tasks, codes, tokens, session,
                   tk, lg, azResp, brResp, cbResp, hcResp, codec>>

-----------------------------------------------------------------------------
(* Session Bridge: views.authenticate_user *)

\* an OHSAccessLog row with success=True
AccessLog(a) == [account |-> a.id, success |-> TRUE, error_message |-> ""]

\* lines 168-182: User.objects.get_or_create(username=...) and the update of
\* an existing user: afterwards the user mirrors the account
UpsertUser(a) ==
    {u \in users : u.username # a.unique_id}
        \cup {[username |-> a.unique_id, email |-> a.user_email]}

\* the last exchange: the path parameter and the response given
BridgeReply(uid, status, body, sub, state) ==
    [unique_id |-> uid, status |-> status, body |-> body,
     subdomain |-> sub, state |-> state]

\* lines 151-207: the whole handler
AuthenticateUser(uid) ==
    LET found == {a \in AccountsByUid(uid) : a.is_active} IN
    IF found = {}
    THEN \* get_object_or_404 raises Http404, which "except Exception" catches
         /\ brResp' = BridgeReply(uid, 400, "Error: No OHSAccount matches the given query.",
                                  "", NoStr)
         /\ UNCHANGED <<now, auths, accounts, users, logs, tasks, codes, tokens,
                        session, tk, lg, azResp, uiResp, cbResp, hcResp, codec>>
    ELSE \E a \in found :
         /\ Len(logs) < MaxLog
         /\ logs' = Append(logs, AccessLog(a))
         /\ users' = UpsertUser(a)
         /\ session' = [account_id |-> a.id, unique_id |-> a.unique_id,
                        user |-> a.unique_id]
         /\ brResp' = BridgeReply(uid, 302, "", a.bridge_subaccount_id, quote(a.unique_id))
         /\ UNCHANGED <<now, auths, accounts, tasks, codes, tokens, tk, lg, azResp, uiResp,
                        cbResp, hcResp, codec>>

-----------------------------------------------------------------------------
(* The admin site: a principal that is logged in independently of the flow *)

\* the username of a staff user
STAFF == <<"s">>

\* ohsinsider/urls.py line 9: a staff user with the given email logs in at
\* /admin/.  django.contrib.auth.login keeps the session's data unless another
\* user was logged in on it, and then flushes it first.
AdminLogin(email) ==
    /\ users' = {u \in users : u.username # STAFF}
                    \cup {[username |-> STAFF, email |-> email]}
    /\ session' = IF session.user \in {NoStr, STAFF}
                  THEN [session EXCEPT !.user = STAFF]
                  ELSE [NoSession EXCEPT !.user = STAFF]
    /\ UNCHANGED <<now, auths, accounts, logs, tasks, codes, tokens,
                   tk, lg, azResp, uiResp, brResp, cbResp, hcResp, codec>>

\* lms/admin.py lines 16-21: an operator edits is_active of an OHSAuth row
AdminSetAuthActive(id, flag) ==
    /\ \E a \in auths : a.id = id /\ a.is_active # flag
    /\ auths' = {IF a.id = id THEN [a EXCEPT !.is_active = flag] ELSE a : a \in auths}
    /\ UNCHANGED <<now, accounts, users, logs, tasks, codes, tokens, session,
                   tk, lg, azResp, uiResp, brResp, cbResp, hcResp, codec>>

\* lms/admin.py lines 8-14: an operator edits is_active of an OHSAccount row
AdminSetAccountActive(id, flag) ==
    /\ \E a \in accounts : a.id = id /\ a.is_active # flag
    /\ accounts' = {IF a.id = id THEN [a EXCEPT !.is_active = flag] ELSE a : a \in accounts}
    /\ UNCHANGED <<now, auths, users, logs, tasks, codes, tokens, session,
                   tk, lg, azResp, uiResp, brResp, cbResp, hcResp, codec>>

-----------------------------------------------------------------------------
(* The opaque token: views.sign_token and views.verify_token *)

\* The text of a token is a sequence of symbols.  A symbol is a 1-tuple that
\* holds a character or a word without delimiters (a field name), or it is a
\* hex digest, the 3-tuple that Hmac gives.
Sym(c) == <<c>>

\* a string of characters as text, and the characters of a text
Text(s) == [i \in 1..Len(s) |-> Sym(s[i])]
Chars(t) == [i \in 1..Len(t) |-> t[i][1]]

\* '&signature='
SIGNATURE_MARKER == <<Sym("&"), Sym("signature"), Sym("=")>>

\* urlencode(data, doseq=True) of an ordered mapping, given as a sequence of
\* <<key, value>> pairs: key=quote_plus(value) joined with '&'
RECURSIVE urlencode(_)
urlencode(data) ==
    IF data = <<>> THEN <<>>
    ELSE <<Sym(data[1][1]), Sym("=")>> \o Text(quote_plus(data[1][2]))
           \o (IF Len(data) > 1 THEN <<Sym("&")>> ELSE <<>>)
           \o urlencode(Tail(data))

\* lines 33-41
sign_token(data, secret) ==
    LET querystring == urlencode(data)
    IN  querystring \o SIGNATURE_MARKER \o <<Hmac(secret, querystring)>>

\* s.split(ch)
RECURSIVE Split(_, _)
Split(s, ch) ==
    IF Contains(s, ch)
    THEN <<SplitOnce(s, ch)[1]>> \o Split(SplitOnce(s, ch)[2], ch)
    ELSE <<s>>

\* the places where '&signature=' starts in a text
Markers(token) ==
    {i \in 1..Len(token) :
        i + 2 <= Len(token) /\ SubSeq(token, i, i + 2) = SIGNATURE_MARKER}

\* lines 57-63: the dict parsed from the querystring, as a set of <<key, value>>
\* pairs; a pair without '=' is skipped, a later pair replaces an earlier one
\* of the same key, and no value is unquoted
ParseQuery(querystring) ==
    LET pairs == Split(querystring, Sym("&"))
        kv(i) == SplitOnce(pairs[i], Sym("="))
        I == {i \in 1..Len(pairs) : Contains(pairs[i], Sym("="))}
    IN  {<<kv(i)[1], kv(i)[2]>> :
            i \in {j \in I : \A h \in I : kv(h)[1] = kv(j)[1] => h <= j}}

\* the result of verify_token: None, or the dict
None == [ok |-> FALSE, data |-> {}]
Verified(data) == [ok |-> TRUE, data |-> data]

\* a decoder that splits at the last '&signature=' and accepts markers before it
verify_tokenAtLastMarker(token, secret) ==
    IF Markers(token) = {} THEN None
    ELSE LET i == CHOOSE j \in Markers(token) : \A k \in Markers(token) : k <= j
             querystring == SubSeq(token, 1, i - 1)
             signature == SubSeq(token, i + 3, Len(token))
         IN  IF signature # <<Hmac(secret, querystring)>> THEN None
             ELSE Verified(ParseQuery(querystring))

\* lines 44-65: token.rsplit('&signature=') must give exactly two parts (the
\* unpacking raises ValueError otherwise, which the bare except turns into
\* None), and the second must be the expected digest
verify_token(token, secret) ==
    IF Cardinality(Markers(token)) # 1 THEN None
    ELSE LET i == CHOOSE j \in Markers(token) : TRUE
             querystring == SubSeq(token, 1, i - 1)
             signature == SubSeq(token, i + 3, Len(token))
         IN  IF signature # <<Hmac(secret, querystring)>> THEN None
             ELSE Verified(ParseQuery(querystring))

\* a run of the codec: the mapping and the secret given to sign_token, the
\* token it made (possibly altered afterwards), the secret given to
\* verify_token and what it said of the token
CodecRun(data, secret, pc, token, result) ==
    [data |-> data, secret |-> secret, pc |-> pc, token |-> token, key |-> "",
     result |-> result]

\* no run
NoCodec == CodecRun(<<>>, "", "idle", <<>>, None)

-----------------------------------------------------------------------------
(* Health check: views.health_check *)

\* a probe that answers only while a client is active
HealthCheckNeedingClient ==
    /\ hcResp' = IF ActiveAuths = {} THEN Reply(400, "No active authentication configured")
                 ELSE Reply(200, "OK")
    /\ UNCHANGED <<now, auths, accounts, users, logs, tasks, codes, tokens, session,
                   tk, lg, azResp, uiResp, brResp, cbResp, codec>>

\* lines 250-254: the whole handler
HealthCheck ==
    /\ hcResp' = Reply(200, "OK")
    /\ UNCHANGED <<now, auths, accounts, users, logs, tasks, codes, tokens, session,
                   tk, lg, azResp, uiResp, brResp, cbResp, codec>>

-----------------------------------------------------------------------------
(* Legacy Callback Endpoint: views.bridge_sso_callback *)

\* the query parameter token: whether it is there (and not empty), whether it
\* base64-decodes into UTF-8 text, and the text it decodes into
CallbackToken(text) == [present |-> TRUE, decodes |-> TRUE, text |-> text]
UndecodableToken == [present |-> TRUE, decodes |-> FALSE, text |-> <<>>]
NoToken == [present |-> FALSE, decodes |-> FALSE, text |-> <<>>]

\* the last exchange: the token received and the response given (base and
\* subaccount are the parts of the redirect's URL)
CallbackReply(token, status, body, base, sub) ==
    [token |-> token, status |-> status, body |-> body, base |-> base,
     subaccount |-> sub]

\* a handler that keeps a failed attempt in the access log
CallbackFailsLogged(token, status, body) ==
    /\ Len(logs) < MaxLog
    /\ logs' = Append(logs, [account |-> NoId, success |-> FALSE, error_message |-> body])
    /\ cbResp' = CallbackReply(token, status, body, "", "")
    /\ UNCHANGED <<now, auths, accounts, users, tasks, codes, tokens, session,
                   tk, lg, azResp, uiResp, brResp, hcResp, codec>>

CallbackFails(token, status, body) ==
    /\ cbResp' = CallbackReply(token, status, body, "", "")
    /\ UNCHANGED <<now, auths, accounts, users, logs, tasks, codes, tokens, session,
                   tk, lg, azResp, uiResp, brResp, hcResp, codec>>

\* line 232: the values user_data['user_id'] can have (none: KeyError)
UserIds(user_data) == {kv[2] : kv \in {p \in user_data : p[1] = <<Sym("user_id")>>}}

\* lines 210-247: the whole handler
BridgeSsoCallback(token) ==
    IF ~token.present
    THEN CallbackFails(token, 400, "Missing token")
    ELSE IF ~token.decodes
    THEN CallbackFails(token, 400, "Error: decoding failed")
    ELSE IF ActiveAuths = {}
    THEN CallbackFails(token, 400, "Authentication not configured")
    ELSE LET auth == First(ActiveAuths)
             user_data == verify_token(token.text, auth.client_secret)
         IN  IF ~user_data.ok \/ user_data.data = {}
             THEN CallbackFails(token, 400, "Invalid token")
             ELSE IF UserIds(user_data.data) = {}
             THEN CallbackFails(token, 400, "Error: 'user_id'")
             ELSE \E user_id \in UserIds(user_data.data) :
                  IF AccountsByUid(Chars(user_id)) = {}
                  THEN \* get_object_or_404 raises Http404, which "except
                       \* Exception" catches
                       CallbackFails(token, 400,
                                     "Error: No OHSAccount matches the given query.")
                  ELSE \E a \in AccountsByUid(Chars(user_id)) :
                       /\ Len(logs) < MaxLog
                       /\ logs' = Append(logs, AccessLog(a))
                       /\ cbResp' = CallbackReply(token, 302, "", auth.bridge_base_url,
                                                  a.bridge_subaccount_id)
                       /\ UNCHANGED <<now, auths, accounts, users, tasks, codes, tokens,
                                      session, tk, lg, azResp, uiResp, brResp, hcResp,
                                      codec>>

-----------------------------------------------------------------------------
(* Authorization Endpoint: views_openid.authorize *)

\* the query parameters of a request: the names present and their values
AuthorizeRequest(has, client_id, redirect_uri, state) ==
    [has |-> has, client_id |-> client_id, redirect_uri |-> redirect_uri, state |-> state]

\* lines 58-60 and 63-65: filter(unique_id=id).first(), and its unique_id
LookupHint(id) ==
    IF AccountsByUid(id) # {} THEN First(AccountsByUid(id)).unique_id ELSE NoStr

\* lines 49-65: the unique_id recovered from state
HintedUid(state) ==
    LET decoded_state == unquote(state) IN
    IF Contains(decoded_state, "|")
    THEN LookupHint(SplitOnce(decoded_state, "|")[2])
    ELSE IF Contains(decoded_state, "@") \/ Len(decoded_state) > MIN_ID_LEN
    THEN LookupHint(decoded_state)
    ELSE NoStr

\* lines 44-67: unique_id after the session and the state have been consulted
RecoveredUid(state) ==
    IF state # NoStr /\ session.unique_id = NoStr /\ HintedUid(state) # NoStr
    THEN HintedUid(state)
    ELSE session.unique_id

\* request.user.email of the session's principal ("" when there is none)
PrincipalEmails == {u.email : u \in {v \in users : v.username = session.user}}

\* request.user.is_authenticated
IsAuthenticated == session.user # NoStr /\ PrincipalEmails # {}

\* the identifier in state tried before the session's account id
CandidatesStateFirst(state) ==
    IF state # NoStr /\ HintedUid(state) # NoStr THEN AccountsByUid(HintedUid(state))
    ELSE IF session.account_id # NoId THEN AccountsById(session.account_id)
    ELSE IF RecoveredUid(state) # NoStr THEN AccountsByUid(RecoveredUid(state))
    ELSE IF IsAuthenticated
    THEN UNION {AccountsByEmail(e) : e \in PrincipalEmails}
    ELSE {}

\* lines 69-79: the rows the lookup that applies can return, and whether a
\* lookup applies at all
Candidates(state) ==
    IF session.account_id # NoId THEN AccountsById(session.account_id)
    ELSE IF RecoveredUid(state) # NoStr THEN AccountsByUid(RecoveredUid(state))
    ELSE IF IsAuthenticated
    THEN UNION {AccountsByEmail(e) : e \in PrincipalEmails}
    ELSE {}

\* the branch that answers forbidden left out: the lookup by email always runs
HasIdentifierAssumed(state) == TRUE

HasIdentifier(state) ==
    session.account_id # NoId \/ RecoveredUid(state) # NoStr \/ IsAuthenticated

\* the test of the path alone, whatever the Account's subaccount id
WantsInterstitialPathOnly(state, a) ==
    StartsWith(SplitOnce(unquote(state), "|")[1], "/")

\* lines 105-113: whether the interstitial page is the answer
WantsInterstitial(state, a) ==
    /\ StartsWith(SplitOnce(unquote(state), "|")[1], "/")
    /\ a.bridge_subaccount_id # ""

\* a code that lives as long as an access token
MintedCodeHourLong(a, client_id) ==
    [id |-> NextId(codes), code |-> NextId(codes), account |-> a.id,
     client_id |-> client_id, expires_at |-> now + TOKEN_TTL, used |-> FALSE]

\* lines 87-96: the OAuthAuthorizationCode row minted
MintedCode(a, client_id) ==
    [id |-> NextId(codes), code |-> NextId(codes), account |-> a.id,
     client_id |-> client_id, expires_at |-> now + CODE_TTL, used |-> FALSE]

\* lines 128 and 161: f'{redirect_uri}?{urlencode({"code": code, "state": state})}'
CodeUrl(redirect_uri, code, state) ==
    [base |-> redirect_uri, code |-> code, state |-> quote_plus(state)]

NoUrl == [base |-> NoStr, code |-> NoCode, state |-> NoStr]

\* A redirect_uri is a sequence of pieces of text: the scheme, words without a
\* dot, pieces that begin with a dot, and path segments.
SCHEME == "https://"
BRIDGE_DOMAIN == ".bridgeapp.com"
TENANT_SUFFIX == "-safetynow"

\* the piece has a '.'
Dotted(piece) == piece \in {BRIDGE_DOMAIN, ".example.com"}

\* line 116: re.search(r'https://([^\.]+)\.bridgeapp\.com', redirect_uri).group(1),
\* or nothing when the search fails.  The search takes the leftmost 'https://'
\* anywhere in the text after which one or more characters other than '.'
\* are followed by '.bridgeapp.com'.
SubdomainMatch(redirect_uri) ==
    LET Ends(i) == {j \in (i + 2)..Len(redirect_uri) :
                       /\ redirect_uri[j] = BRIDGE_DOMAIN
                       /\ \A k \in (i + 1)..(j - 1) : ~Dotted(redirect_uri[k])}
        starts == {i \in 1..Len(redirect_uri) : redirect_uri[i] = SCHEME /\ Ends(i) # {}}
    IN  IF starts = {} THEN <<>>
        ELSE LET i == CHOOSE n \in starts : \A m \in starts : n <= m
                 j == CHOOSE n \in Ends(i) : TRUE
             IN  SubSeq(redirect_uri, i + 1, j - 1)

\* lines 117-125: the tenant subdomain of the page the browser is sent to
BridgeSubdomain(redirect_uri, a) ==
    LET extracted_subdomain == SubdomainMatch(redirect_uri) IN
    IF extracted_subdomain # <<>>
    THEN IF ~Contains(extracted_subdomain, TENANT_SUFFIX)
         THEN extracted_subdomain \o <<TENANT_SUFFIX>>
         ELSE extracted_subdomain
    ELSE <<a.bridge_subaccount_id>>

\* line 127: f"https://{bridge_subdomain}.bridgeapp.com{state_path}"
BridgeCoursesUrl(redirect_uri, state, a) ==
    [subdomain |-> BridgeSubdomain(redirect_uri, a),
     path |-> SplitOnce(unquote(state), "|")[1]]

NoTarget == [subdomain |-> <<>>, path |-> NoStr]

\* the last exchange: the request and the response given.  kind is "html" for
\* the interstitial, whose hidden frame loads url and whose script sends the
\* window to target, and "redirect" for the redirect to url
AuthorizeReply(req, status, body, kind, code) ==
    [req |-> req, status |-> status, body |-> body, kind |-> kind, code |-> code,
     url |-> IF code # NoCode THEN CodeUrl(req.redirect_uri, code, req.state) ELSE NoUrl,
     target |-> NoTarget]

\* a logout that leaves the session as it is
auth_logoutKeepingSession(s) == s

\* line 99: django.contrib.auth.logout flushes the session, which afterwards
\* has no key and no user
auth_logout(s) == NoSession

\* a failure that also logs the browser out
AuthorizeFailsLoggingOut(req, status, body) ==
    /\ azResp' = AuthorizeReply(req, status, body, "", NoCode)
    /\ session' = NoSession
    /\ UNCHANGED <<now, auths, accounts, users, logs, tasks, codes, tokens,
                   tk, lg, uiResp, brResp, cbResp, hcResp, codec>>

\* a response of lines 38, 79 and 84, or of an exception that leaves the handler
AuthorizeFails(req, status, body) ==
    /\ azResp' = AuthorizeReply(req, status, body, "", NoCode)
    /\ UNCHANGED <<now, auths, accounts, users, logs, tasks, codes, tokens, session,
                   tk, lg, uiResp, brResp, cbResp, hcResp, codec>>

\* lines 28-165: the whole handler
Authorize(req) ==
    IF req.has # {"client_id", "redirect_uri", "state"}
    THEN AuthorizeFails(req, 400, "Incomplete set of parameters")
    ELSE IF ~HasIdentifier(req.state)
    THEN AuthorizeFails(req, 403, "User session not found. Please start from WordPress login.")
    ELSE IF Candidates(req.state) = {}
    THEN \* get_object_or_404 raises Http404, which the handler does not catch
         AuthorizeFails(req, 404, "Not Found")
    ELSE IF Cardinality(Candidates(req.state)) > 1
    THEN \* get() raises MultipleObjectsReturned, which the handler does not catch
         AuthorizeFails(req, 500, "Server Error")
    ELSE IF ActiveAuths = {}
    THEN AuthorizeFails(req, 400, "Authentication not configured")
    ELSE \E a \in Candidates(req.state) :
         /\ Cardinality(codes) < MaxCodes
         /\ codes' = codes \cup {MintedCode(a, req.client_id)}
         /\ session' = auth_logout(session)
         /\ azResp' = IF WantsInterstitial(req.state, a)
                      THEN [AuthorizeReply(req, 200, "", "html", NextId(codes))
                              EXCEPT !.target = BridgeCoursesUrl(req.redirect_uri,
                                                                 req.state, a)]
                      ELSE AuthorizeReply(req, 302, "", "redirect", NextId(codes))
         /\ UNCHANGED <<now, auths, accounts, users, logs, tasks, tokens,
                        tk, lg, uiResp, brResp, cbResp, hcResp, codec>>

-----------------------------------------------------------------------------
(* Login Ingestion: views.wordpress_login_notification, run by LoginWorkers *)

LoginWorkers == {"l1", "l2"}

\* the fields of the JSON body the handler copies into the Account
ProfileFields == {"user_email", "first_name", "last_name", "bridge_subaccount_id"}

\* the JSON body of a notification: the keys present and their values (the
\* body's key "email" feeds user_email; the value of an absent key is not read)
Payload(has, uid, email, first, last, sub, timestamp, signature) ==
    [has |-> has, unique_id |-> uid, user_email |-> email, first_name |-> first,
     last_name |-> last, bridge_subaccount_id |-> sub, timestamp |-> timestamp,
     signature |-> signature]

NoPayload == Payload({}, NoStr, "", "", "", "", 0, <<>>)

\* data.get(key, default)
Get(data, key, default) == IF key \in data.has THEN data[key] ELSE default

\* lines 89-91: urlencode of every key of the body but signature, in the
\* body's order: the pairs that are signed
DataString(data) == [k \in data.has \ {"signature"} |-> data[k]]

\* lines 94-98: the signature the handler expects
ExpectedSignature(data, secret) == Hmac(secret, DataString(data))

\* the comparison left out: any signature that is there passes
SignatureMatchesUnchecked(data, secret) == data.signature # <<>>

\* line 100: the signature of the body is the expected one
SignatureMatches(data, secret) == data.signature = ExpectedSignature(data, secret)

\* the window test with >= in place of >
ExpiredInclusive(data, t) ==
    LET d == t - Get(data, "timestamp", 0) IN (IF d < 0 THEN -d ELSE d) >= FRESHNESS

\* lines 104-105: abs(time.time() - timestamp) > 300
Expired(data, t) ==
    LET d == t - Get(data, "timestamp", 0) IN (IF d < 0 THEN -d ELSE d) > FRESHNESS

\* the table without its unique index: every INSERT goes through
InsertAllowedUnconstrained(uid) == TRUE

\* models.py lines 13-18: unique=True on unique_id; an INSERT of a second row
\* with the same unique_id raises IntegrityError
InsertAllowed(uid) == AccountsByUid(uid) = {}

\* lines 113-121: the row get_or_create inserts
CreatedAccount(data) ==
    Account(NextId(accounts), data.unique_id, Get(data, "user_email", ""),
            Get(data, "first_name", ""), Get(data, "last_name", ""),
            Get(data, "bridge_subaccount_id", ""), TRUE)

\* the update as an unconditional overwrite: an absent key gives ''
OverwrittenAccount(account, data) ==
    [account EXCEPT
       !.user_email = Get(data, "user_email", ""),
       !.first_name = Get(data, "first_name", ""),
       !.last_name = Get(data, "last_name", ""),
       !.bridge_subaccount_id = Get(data, "bridge_subaccount_id", "")]

\* lines 125-128: the in-memory row after the update of an existing account
UpdatedAccount(account, data) ==
    [account EXCEPT
       !.user_email = Get(data, "user_email", account.user_email),
       !.first_name = Get(data, "first_name", account.first_name),
       !.last_name = Get(data, "last_name", account.last_name),
       !.bridge_subaccount_id = Get(data, "bridge_subaccount_id",
                                    account.bridge_subaccount_id)]

\* line 129: account.save() writes every field of the in-memory row over the
\* stored row of the same primary key
SaveAccount(row) == {IF a.id = row.id THEN row ELSE a : a \in accounts}

\* a task queued with the type of an account sync
SyncTaskOfAccountType(a) ==
    [account |-> a.id, task_type |-> "A", status |-> STATUS_PENDING, error_message |-> "",
     started_at |-> NoTime, completed_at |-> NoTime]

\* a task queued as one that a worker has taken up
SyncTaskTakenUp(a) ==
    [account |-> a.id, task_type |-> TASK_TYPE_USER, status |-> "PR", error_message |-> "",
     started_at |-> now, completed_at |-> NoTime]

\* lines 140-143: the BridgeSyncTask row queued (status, error_message,
\* started_at and completed_at by the defaults of models.py lines 170-174)
SyncTask(a) ==
    [account |-> a.id, task_type |-> TASK_TYPE_USER, status |-> STATUS_PENDING,
     error_message |-> "", started_at |-> NoTime, completed_at |-> NoTime]

NoAccount == Account(NoId, NoStr, "", "", "", "", FALSE)

\* lines 23-30: what get_client_ip gives: the first entry of X-Forwarded-For or
\* REMOTE_ADDR, and nothing when the request has neither (REMOTE_ADDR is absent
\* or '' when the server listens on a local socket)
CLIENT_ADDR == "10.0.0.1"
NO_ADDR == ""

\* the Accounts, AccessLog entries and SyncTasks stored
Store == [accounts |-> accounts, logs |-> logs, tasks |-> tasks]
NoStore == [accounts |-> {}, logs |-> <<>>, tasks |-> <<>>]

\* a worker between requests: the handler's locals and its response.  before
\* is not a local of the handler: where a specification asks for it, it holds
\* what was stored when the request in hand began, until that request is
\* answered with success.
IdleLogin == [pc |-> "idle", data |-> NoPayload, ip |-> CLIENT_ADDR, account |-> NoAccount,
              created |-> FALSE, reply |-> NoReply, before |-> NoStore]

LoginRejects(w, data, body) ==
    /\ lg' = [lg EXCEPT ![w] = [IdleLogin EXCEPT !.pc = "done", !.data = data,
                                                 !.reply = Reply(400, body)]]
    /\ UNCHANGED <<now, auths, accounts, users, logs, tasks, codes, tokens, session,
                   tk, azResp, uiResp, brResp, cbResp, hcResp, codec>>

\* lines 74-113: the checks of the request, then the SELECT of get_or_create,
\* for a request from client address ip; before is NoStore, or Store to keep
\* the record of what was stored when the request began
LoginBeginFrom(w, data, ip, before) ==
    /\ lg[w].pc \in {"idle", "done"}
    /\ IF ActiveAuths = {}
       THEN LoginRejects(w, data, "No active authentication configured")
       ELSE IF Get(data, "signature", <<>>) = <<>>
       THEN LoginRejects(w, data, "Missing signature")
       ELSE IF ~SignatureMatches(data, First(ActiveAuths).client_secret)
       THEN LoginRejects(w, data, "Invalid signature")
       ELSE IF Expired(data, now)
       THEN LoginRejects(w, data, "Token expired")
       ELSE IF Get(data, "unique_id", NoStr) = NoStr
       THEN LoginRejects(w, data, "Missing unique_id")
       ELSE /\ IF AccountsByUid(data.unique_id) = {}
               THEN lg' = [lg EXCEPT ![w] = [IdleLogin EXCEPT !.pc = "create",
                                                              !.data = data, !.ip = ip,
                                                              !.before = before]]
               ELSE \E a \in AccountsByUid(data.unique_id) :
                      lg' = [lg EXCEPT ![w] = [IdleLogin EXCEPT !.pc = "update",
                                                 !.data = data, !.ip = ip,
                                                 !.account = a, !.before = before]]
            /\ UNCHANGED <<now, auths, accounts, users, logs, tasks, codes, tokens,
                           session, tk, azResp, uiResp, brResp, cbResp, hcResp, codec>>

\* the same for a request that carries its client's address
LoginBegin(w, data) == LoginBeginFrom(w, data, CLIENT_ADDR, NoStore)

\* line 113: the INSERT of get_or_create; on IntegrityError get_or_create
\* fetches the row another request inserted and returns it with created=False
LoginCreate(w) ==
    /\ lg[w].pc = "create"
    /\ IF InsertAllowed(lg[w].data.unique_id)
       THEN /\ accounts' = accounts \cup {CreatedAccount(lg[w].data)}
            /\ lg' = [lg EXCEPT ![w].pc = "record", ![w].created = TRUE,
                                ![w].account = CreatedAccount(lg[w].data)]
       ELSE /\ accounts' = accounts
            /\ \E a \in AccountsByUid(lg[w].data.unique_id) :
                 lg' = [lg EXCEPT ![w].pc = "update", ![w].account = a]
    /\ UNCHANGED <<now, auths, users, logs, tasks, codes, tokens, session,
                   tk, azResp, uiResp, brResp, cbResp, hcResp, codec>>

\* lines 123-129: the update of an account that existed
LoginUpdate(w) ==
    /\ lg[w].pc = "update"
    /\ accounts' = SaveAccount(UpdatedAccount(lg[w].account, lg[w].data))
    /\ lg' = [lg EXCEPT ![w].pc = "record",
                        ![w].account = UpdatedAccount(lg[w].account, lg[w].data)]
    /\ UNCHANGED <<now, auths, users, logs, tasks, codes, tokens, session,
                   tk, azResp, uiResp, brResp, cbResp, hcResp, codec>>

\* lines 131-148: the AccessLog row, the SyncTask row and the response.
\* ip_address is a GenericIPAddressField without null=True: for no address the
\* INSERT raises IntegrityError, which "except Exception" answers with 400;
\* what the request wrote before stays written (there is no transaction).
LoginRecord(w) ==
    /\ lg[w].pc = "record"
    /\ IF lg[w].ip = NO_ADDR
       THEN /\ lg' = [lg EXCEPT
                        ![w].pc = "done",
                        ![w].reply = Reply(400, "Error: NOT NULL constraint failed")]
            /\ UNCHANGED <<logs, tasks>>
       ELSE /\ Len(logs) < MaxLog
            /\ logs' = Append(logs, AccessLog(lg[w].account))
            /\ tasks' = Append(tasks, SyncTask(lg[w].account))
            /\ lg' = [lg EXCEPT ![w].pc = "done", ![w].reply = Reply(200, "OK"),
                                ![w].before = NoStore]
    /\ UNCHANGED <<now, auths, accounts, users, codes, tokens, session,
                   tk, azResp, uiResp, brResp, cbResp, hcResp, codec>>

-----------------------------------------------------------------------------
(* The admin site: deletion of an Account *)

\* lms/admin.py lines 8-14: an operator deletes an OHSAccount row between two
\* notifications.  Its access logs, sync tasks, codes and tokens go with it
\* (on_delete=CASCADE); the auth User and the sessions stay as they are.
AdminDeleteAccount(id) ==
    /\ \E a \in accounts : a.id = id
    /\ \A w \in LoginWorkers : lg[w].pc \in {"idle", "done"}
    /\ \A w \in TokenWorkers : tk[w].pc \in {"idle", "done"}
    /\ accounts' = {a \in accounts : a.id # id}
    /\ logs' = SelectSeq(logs, LAMBDA l : l.account # id)
    /\ tasks' = SelectSeq(tasks, LAMBDA t : t.account # id)
    /\ codes' = {c \in codes : c.account # id}
    /\ tokens' = {t \in tokens : t.account # id}
    /\ UNCHANGED <<now, auths, users, session,
                   tk, lg, azResp, uiResp, brResp, cbResp, hcResp, codec>>

-----------------------------------------------------------------------------
(* The clock *)

\* Time passes.  The handlers read the clock only to compare it with a stored
\* expires_at, so it is advanced to one second before, exactly to, or one
\* second past one of the given deadlines.
Tick(deadlines) ==
    /\ \E d \in deadlines : \E k \in {-1, 0, 1} : d + k > now /\ now' = d + k
    /\ UNCHANGED <<auths, accounts, users, logs, tasks, codes, tokens, session,
                   tk, lg, azResp, uiResp, brResp, cbResp, hcResp, codec>>

-----------------------------------------------------------------------------
(* The code and token life cycle: Authorization, Token and UserInfo Endpoints *)

\* state as the Session Bridge's redirect makes the platform send it
STATE_A == PATH \o <<"|">> \o UID_A
STATE_B == quote(UID_B)

InitToken ==
    /\ now = StartTime
    /\ auths = {AUTH_1, AUTH_2}
    /\ accounts = {ACCT_A, ACCT_B}
    /\ users = {}
    /\ logs = <<>>
    /\ tasks = <<>>
    /\ codes = {}
    /\ tokens = {}
    /\ session = NoSession
    /\ tk = [w \in TokenWorkers |-> IdleToken]
    /\ lg = [w \in LoginWorkers |-> IdleLogin]
    /\ azResp = AuthorizeReply(AuthorizeRequest({}, "", NoStr, NoStr), 0, "", "", NoCode)
    /\ uiResp = UserInfoReply(NoHeader, 0, "", NoClaims)
    /\ brResp = BridgeReply(NoStr, 0, "", "", NoStr)
    /\ cbResp = CallbackReply(NoToken, 0, "", "", "")
    /\ hcResp = NoReply
    /\ codec = NoCodec

AllParams == {"client_id", "redirect_uri", "state"}

\* the code values requests present: every value minted, and one never minted
CodeValues == 1..(MaxCodes + 1)

\* the credentials requests present: the active client's, and a wrong secret
VALID_BASIC == BasicHeader(AUTH_1.client_id, AUTH_1.client_secret)
TokenHeaders == {VALID_BASIC, BasicHeader(AUTH_1.client_id, "bad"), NoHeader}

NextToken ==
    \/ Authorize(AuthorizeRequest(AllParams, "cid1", <<"cb">>, STATE_A))
    \/ \E w \in TokenWorkers, code \in CodeValues, hdr \in TokenHeaders :
         TokenLookup(w, hdr, code)
    \/ \E w \in TokenWorkers : TokenRedeem(w)
    \/ Tick({c.expires_at : c \in {d \in codes : ~d.used}})

SpecToken == InitToken /\ [][NextToken]_vars

NextUserInfo ==
    \/ \E state \in {STATE_A, STATE_B} :
         Authorize(AuthorizeRequest(AllParams, "cid1", <<"cb">>, state))
    \/ \E code \in CodeValues : TokenLookup("w1", VALID_BASIC, code)
    \/ TokenRedeem("w1")
    \/ \E scheme \in {"Bearer", "Basic"}, token \in 1..MaxTokens :
         UserInfo(BearerHeader(scheme, token))
    \/ UserInfo(NoHeader)
    \/ UserInfo(MalformedHeader)
    \/ AdminSetAuthActive(AUTH_1.id, FALSE)
    \/ AdminSetAccountActive(ACCT_A.id, FALSE)
    \/ Tick({k.expires_at : k \in tokens})

SpecUserInfo == InitToken /\ [][NextUserInfo]_vars

-----------------------------------------------------------------------------
(* Client credentials at the Token Endpoint, while an operator edits clients *)

\* headers that do not decode, name no client, name the inactive client, carry
\* a wrong secret, and the active client's
CredentialHeaders ==
    {UndecodableHeader, BasicHeader("nobody", AUTH_1.client_secret),
     BasicHeader(AUTH_2.client_id, AUTH_2.client_secret),
     BasicHeader(AUTH_1.client_id, "bad"), VALID_BASIC}

NextCredentials ==
    \/ Authorize(AuthorizeRequest(AllParams, "cid1", <<"cb">>, STATE_A))
    \/ \E hdr \in CredentialHeaders, code \in CodeValues : TokenLookup("w1", hdr, code)
    \/ TokenRedeem("w1")
    \/ \E a \in {AUTH_1, AUTH_2}, flag \in BOOLEAN : AdminSetAuthActive(a.id, flag)

SpecCredentials == InitToken /\ [][NextCredentials]_vars

-----------------------------------------------------------------------------
(* Login Ingestion under concurrent notifications *)

\* the keys of a complete body, and of one without email and subaccount id
AllKeys == ProfileFields \cup {"unique_id", "timestamp"}
PartialKeys == AllKeys \ {"user_email", "bridge_subaccount_id"}

\* an unsigned body carrying the keys `has`, with the v-th set of profile values
Body(has, uid, v, timestamp) ==
    IF v = 1
    THEN Payload(has, uid, "e1@ohs", "First1", "Last1", "tenant1", timestamp, <<>>)
    ELSE Payload(has, uid, "e2@ohs", "First2", "Last2", "tenant2", timestamp, <<>>)

\* test_integration.py lines 71-79: the legacy site signs the body
Sign(data, secret) ==
    [data EXCEPT !.signature = Hmac(secret, DataString(data)),
                 !.has = data.has \cup {"signature"}]

\* bodies the legacy site sends now: complete ones and one lacking two keys
FreshPayloads ==
    {Sign(Body(kv[1], uid, kv[2], now), AUTH_1.client_secret) :
        uid \in {UID_A, UID_B}, kv \in {<<AllKeys, 1>>, <<AllKeys, 2>>, <<PartialKeys, 2>>}}

\* correctly signed bodies at and around the edges of the freshness window,
\* one without timestamp and one without unique_id
EdgePayloads ==
    {Sign(Body(AllKeys, UID_A, 1, now + d), AUTH_1.client_secret) :
        d \in {-(FRESHNESS + 1), -FRESHNESS, -(FRESHNESS - 1),
               FRESHNESS - 1, FRESHNESS, FRESHNESS + 1}}
    \cup {Sign(Body(AllKeys \ {"timestamp"}, UID_A, 1, 0), AUTH_1.client_secret),
          Sign(Body(AllKeys \ {"unique_id"}, UID_A, 1, now), AUTH_1.client_secret)}

\* bodies whose signature is absent, made with another secret, or made for
\* other field values
ForgedPayloads ==
    {Body(AllKeys, UID_A, 1, now),
     Sign(Body(AllKeys, UID_A, 1, now), AUTH_2.client_secret),
     [Sign(Body(AllKeys, UID_A, 1, now), AUTH_1.client_secret)
        EXCEPT !.user_email = "e2@ohs"]}

LoginPayloads == FreshPayloads \cup EdgePayloads \cup ForgedPayloads

InitLogin ==
    /\ now = StartTime
    /\ auths = {AUTH_1, AUTH_2}
    /\ accounts = {ACCT_A}
    /\ users = {}
    /\ logs = <<>>
    /\ tasks = <<>>
    /\ codes = {}
    /\ tokens = {}
    /\ session = NoSession
    /\ tk = [w \in TokenWorkers |-> IdleToken]
    /\ lg = [w \in LoginWorkers |-> IdleLogin]
    /\ azResp = AuthorizeReply(AuthorizeRequest({}, "", NoStr, NoStr), 0, "", "", NoCode)
    /\ uiResp = UserInfoReply(NoHeader, 0, "", NoClaims)
    /\ brResp = BridgeReply(NoStr, 0, "", "", NoStr)
    /\ cbResp = CallbackReply(NoToken, 0, "", "", "")
    /\ hcResp = NoReply
    /\ codec = NoCodec

NextLogin ==
    \/ \E w \in LoginWorkers, data \in LoginPayloads : LoginBegin(w, data)
    \/ \E w \in LoginWorkers : LoginCreate(w)
    \/ \E w \in LoginWorkers : LoginUpdate(w)
    \/ \E w \in LoginWorkers : LoginRecord(w)

SpecLogin == InitLogin /\ [][NextLogin]_vars

-----------------------------------------------------------------------------
(* The browser flow: Session Bridge, then Authorization Endpoint *)

\* an account that was deactivated, with a short unique_id
ACCT_C == Account(3, UID_C, "c@ohs", "Cy", "Orr", "tenant", FALSE)

\* the values of state requests carry: path|id of an account, the quoted id
\* of an account, a short bare id, a path alone, path|id of no account, ''
AuthorizeStates ==
    {STATE_A, STATE_B, UID_C, PATH, PATH \o <<"|">> \o UID_X, NoStr}

\* the clients that send the browser here, as <<client_id, redirect_uri>>: the
\* platform, and one the service has no OHSAuth row for
AuthorizeClients == {<<"cid1", <<"cb">>>>, <<"other", <<"cb2">>>>}

\* complete requests, and requests that lack one of the three parameters
AuthorizeRequests ==
    {AuthorizeRequest(AllParams, "cid1", <<"cb">>, state) : state \in AuthorizeStates}
    \cup {AuthorizeRequest(AllParams, cl[1], cl[2], STATE_B) : cl \in AuthorizeClients}
    \cup {AuthorizeRequest(AllParams \ {p}, "cid1", <<"cb">>, STATE_A) : p \in AllParams}

InitAuthz ==
    /\ now = StartTime
    /\ auths = {AUTH_1, AUTH_2}
    /\ accounts = {ACCT_A, ACCT_B, ACCT_C}
    /\ users = {}
    /\ logs = <<>>
    /\ tasks = <<>>
    /\ codes = {}
    /\ tokens = {}
    /\ session = NoSession
    /\ tk = [w \in TokenWorkers |-> IdleToken]
    /\ lg = [w \in LoginWorkers |-> IdleLogin]
    /\ azResp = AuthorizeReply(AuthorizeRequest({}, "", NoStr, NoStr), 0, "", "", NoCode)
    /\ uiResp = UserInfoReply(NoHeader, 0, "", NoClaims)
    /\ brResp = BridgeReply(NoStr, 0, "", "", NoStr)
    /\ cbResp = CallbackReply(NoToken, 0, "", "", "")
    /\ hcResp = NoReply
    /\ codec = NoCodec

NextAuthz ==
    \/ \E uid \in {UID_A, UID_B, UID_C, UID_X} : AuthenticateUser(uid)
    \/ \E email \in {ACCT_A.user_email, "staff@ohs"} : AdminLogin(email)
    \/ \E req \in AuthorizeRequests : Authorize(req)

SpecAuthz == InitAuthz /\ [][NextAuthz]_vars

-----------------------------------------------------------------------------
(* The endpoints that need an active client, while an operator edits clients *)

\* a second Account of the person who holds ACCT_A, with the same email
ACCT_A2 == Account(2, UID_B, ACCT_A.user_email, "Ann", "Lee", "", TRUE)

\* tokens the platform sends back: signed for an Account, signed with another
\* secret, not base64, and none
CallbackTokens ==
    {CallbackToken(sign_token(<<<<"user_id", UID_A>>>>, AUTH_1.client_secret)),
     CallbackToken(sign_token(<<<<"user_id", UID_A>>>>, AUTH_2.client_secret)),
     UndecodableToken, NoToken}

\* notifications for an existing and for a new unique_id
FaultPayloads ==
    {Sign(Body(AllKeys, uid, 1, now), AUTH_1.client_secret) : uid \in {UID_A, UID_X}}

InitFault ==
    /\ now = StartTime
    /\ auths = {AUTH_1, AUTH_2}
    /\ accounts = {ACCT_A, ACCT_A2}
    /\ users = {}
    /\ logs = <<>>
    /\ tasks = <<>>
    /\ codes = {}
    /\ tokens = {}
    /\ session = NoSession
    /\ tk = [w \in TokenWorkers |-> IdleToken]
    /\ lg = [w \in LoginWorkers |-> IdleLogin]
    /\ azResp = AuthorizeReply(AuthorizeRequest({}, "", NoStr, NoStr), 0, "", "", NoCode)
    /\ uiResp = UserInfoReply(NoHeader, 0, "", NoClaims)
    /\ brResp = BridgeReply(NoStr, 0, "", "", NoStr)
    /\ cbResp = CallbackReply(NoToken, 0, "", "", "")
    /\ hcResp = NoReply
    /\ codec = NoCodec

NextFault ==
    \/ \E flag \in BOOLEAN : AdminSetAuthActive(AUTH_1.id, flag)
    \/ AdminLogin(ACCT_A.user_email)
    \/ \E state \in {STATE_A, NoStr} :
         Authorize(AuthorizeRequest(AllParams, "cid1", <<"cb">>, state))
    \/ \E data \in FaultPayloads : LoginBegin("l1", data)
    \/ LoginCreate("l1")
    \/ LoginUpdate("l1")
    \/ LoginRecord("l1")
    \/ \E token \in CallbackTokens : BridgeSsoCallback(token)

SpecFault == InitFault /\ [][NextFault]_vars

-----------------------------------------------------------------------------
(* Claims about the Token and UserInfo Endpoints *)

\* in this step worker w takes a request
TakesTokenRequest(w) == tk[w].pc # "save" /\ tk'[w] # tk[w]

\* C1: two Token Endpoint requests with valid credentials and the same unused,
\* unexpired code never both succeed, and no more AccessTokens exist than
\* codes were consumed (at most one token is minted from one code).
C1_SingleRedemption ==
    /\ \A v, w \in TokenWorkers :
         (v # w /\ tk[v].reply.status = 200 /\ tk[w].reply.status = 200)
            => tk[v].code # tk[w].code
    /\ Cardinality(tokens) <= Cardinality({c \in codes : c.used})

\* C2: a code a request has succeeded for is stored with used=true; a used
\* code stays used; and every Token Endpoint request that presents a used code
\* fails and mints no AccessToken, with forbidden whatever credentials its
\* Authorization header carries.
C2_RedeemedStaysUsed ==
    \A w \in TokenWorkers :
        tk[w].reply.status = 200 => \E c \in codes : c.code = tk[w].code /\ c.used

C2_StepRefusesUsed ==
    /\ \A c \in codes : c.used => \E d \in codes' : d.id = c.id /\ d.used
    /\ \A w \in TokenWorkers, hdr \in TokenHeaders, c \in codes :
         (c.used /\ TakesTokenRequest(w) /\ TokenLookup(w, hdr, c.code))
            => /\ tokens' = tokens
               /\ tk'[w].pc = "done"
               /\ tk'[w].reply.status # 200
               /\ hdr.present => tk'[w].reply.status = 403

\* C2: once a request has succeeded for a code the code is stored used, it
\* stays used, and every later request that presents it is refused and mints
\* no AccessToken.
C2_UsedCodeIsDead == [] C2_RedeemedStaysUsed /\ [][C2_StepRefusesUsed]_vars

\* C2 witness: a request got forbidden for a code that another request had
\* redeemed long before the code's expires_at.
C2_Witness ==
    \E v, w \in TokenWorkers :
        /\ tk[v].reply.status = 200
        /\ tk[w].reply = TokenReply(403, "Invalid or expired authorization code", 0, 0)
        /\ tk[w].code = tk[v].code
        /\ \E c \in codes : c.code = tk[w].code /\ c.used /\ c.expires_at > now

\* C3: with valid credentials a request goes on to redeem the code exactly when
\* a row with the presented value exists with used=false and expires_at
\* strictly later than now, and then answers 200; otherwise (unknown, used or
\* expired code) it answers one and the same forbidden response and leaves
\* codes and tokens as they were.
C3_Step ==
    /\ \A w \in TokenWorkers, code \in CodeValues :
         (TakesTokenRequest(w) /\ TokenLookup(w, VALID_BASIC, code))
            => IF \E c \in codes : c.code = code /\ ~c.used /\ now < c.expires_at
               THEN tk'[w].pc = "save" /\ tk'[w].auth_code.code = code
               ELSE /\ tk'[w].pc = "done"
                    /\ tk'[w].reply =
                         TokenReply(403, "Invalid or expired authorization code", 0, 0)
                    /\ codes' = codes
                    /\ tokens' = tokens
    /\ \A w \in TokenWorkers :
         TokenRedeem(w) => tk'[w].pc = "done" /\ tk'[w].reply.status = 200

\* C3: with valid credentials a request succeeds if and only if the code
\* exists, is unused and expires strictly later than now; every other code gets
\* the same forbidden response and changes nothing.
C3_RedeemableIffFresh == [][C3_Step]_vars

\* C3 witness: a request with valid credentials was refused for an unused code
\* whose expires_at is exactly now.
C3_Witness ==
    \E w \in TokenWorkers, c \in codes :
        /\ tk[w].reply = TokenReply(403, "Invalid or expired authorization code", 0, 0)
        /\ c.code = tk[w].code
        /\ ~c.used
        /\ c.expires_at = now

\* C4: the token a request returns for a code belongs to the code's Account;
\* and the UserInfo Endpoint answers a request bearing a stored token with
\* the claims of the token's Account (uid = sub = its unique_id) at every
\* time before the token's expires_at and with forbidden at or after it.
C4_TokenOfCodeAccount ==
    \A w \in TokenWorkers :
        tk[w].reply.status = 200
           => \E k \in tokens, c \in codes :
                /\ k.token = tk[w].reply.access_token
                /\ c.code = tk[w].code
                /\ k.account = c.account

C4_Step ==
    \A k \in tokens :
        UserInfo(BearerHeader("Bearer", k.token))
           => IF now < k.expires_at
              THEN /\ uiResp'.status = 200
                   /\ \E a \in accounts :
                        /\ a.id = k.account
                        /\ uiResp'.claims = Claims(a)
                        /\ uiResp'.claims.uid = a.unique_id
                        /\ uiResp'.claims.sub = a.unique_id
              ELSE uiResp'.status = 403 /\ uiResp'.claims = NoClaims

\* C4: before a token's expires_at the UserInfo Endpoint answers with the
\* claims of the Account of the code the token was minted from, and at or
\* after it with forbidden.
C4_UserInfoConsistent == [] C4_TokenOfCodeAccount /\ [][C4_Step]_vars

\* C4 witness: in the last second of a token's validity the UserInfo Endpoint
\* answered with the claims of the Account of the code the token came from.
C4_Witness ==
    \E k \in tokens, c \in codes, a \in accounts :
        /\ uiResp.hdr = BearerHeader("Bearer", k.token)
        /\ uiResp.status = 200
        /\ now = k.expires_at - 1
        /\ tk["w1"].reply.access_token = k.token
        /\ c.code = tk["w1"].code
        /\ a.id = c.account
        /\ uiResp.claims.sub = a.unique_id

-----------------------------------------------------------------------------
(* Claims about Login Ingestion *)

\* the signature of a body is there and is the HMAC, under the active
\* client's secret, of all its other fields
ProperlySigned(data) ==
    /\ "signature" \in data.has
    /\ \E a \in auths :
         /\ a.is_active
         /\ data.signature = Hmac(a.client_secret, [k \in data.has \ {"signature"} |-> data[k]])

\* |now - timestamp| of a body (an absent timestamp counts as 0)
Age(data) ==
    LET ts == IF "timestamp" \in data.has THEN data.timestamp ELSE 0
    IN  IF now >= ts THEN now - ts ELSE ts - now

\* a worker has accepted the notification it holds
Accepted(w) == lg[w].pc \in {"create", "update", "record"} \/ lg[w].reply.status = 200

\* in this step worker w takes a notification, which it then holds as data
TakesNotification(w) == lg[w].pc \in {"idle", "done"} /\ lg'[w] # lg[w]

\* C5: a notification is accepted only if its signature is the HMAC of its
\* other fields under the active client's secret; a notification whose
\* signature is missing or different is rejected at once, and no Account,
\* AccessLog or SyncTask is created or changed.
C5_AcceptedIsSigned == \A w \in LoginWorkers : Accepted(w) => ProperlySigned(lg[w].data)

C5_Step ==
    \A w \in LoginWorkers :
        (TakesNotification(w) /\ ~ProperlySigned(lg'[w].data))
           => /\ lg'[w].pc = "done"
              /\ lg'[w].reply.status = 400
              /\ accounts' = accounts
              /\ logs' = logs
              /\ tasks' = tasks

\* C5: Login Ingestion accepts a notification only if its signature matches,
\* and rejects every other one without creating or changing a row.
C5_SignatureRequired == [] C5_AcceptedIsSigned /\ [][C5_Step]_vars

\* C5 witness: a notification signed with another secret than the active
\* client's was rejected, while a properly signed one is being accepted.
C5_Witness ==
    \E v, w \in LoginWorkers :
        /\ lg[v].reply = Reply(400, "Invalid signature")
        /\ lg[v].data.signature = Hmac(AUTH_2.client_secret, DataString(lg[v].data))
        /\ Accepted(w)

\* C6: a correctly signed notification is accepted only if
\* |now - timestamp| <= 300; one whose timestamp is further away is rejected
\* as expired with nothing written, and one within the window (that names a
\* unique_id) goes on to the upsert.
C6_AcceptedIsFresh == \A w \in LoginWorkers : Accepted(w) => Age(lg[w].data) <= 300

C6_Step ==
    \A w \in LoginWorkers :
        (TakesNotification(w) /\ ProperlySigned(lg'[w].data))
           => /\ Age(lg'[w].data) > 300
                   => /\ lg'[w].pc = "done"
                      /\ lg'[w].reply = Reply(400, "Token expired")
                      /\ accounts' = accounts /\ logs' = logs /\ tasks' = tasks
              /\ (Age(lg'[w].data) <= 300 /\ "unique_id" \in lg'[w].data.has)
                   => lg'[w].pc \in {"create", "update"}

\* C6: Login Ingestion accepts a correctly signed notification only if
\* |now - timestamp| <= 300 seconds, and rejects one outside the window as
\* expired without writing a row.
C6_FreshnessWindow == [] C6_AcceptedIsFresh /\ [][C6_Step]_vars

\* C6 witness: a signed notification 301 seconds old was rejected as expired
\* and one 299 seconds old was answered 200.
C6_Witness ==
    \E v, w \in LoginWorkers :
        /\ lg[v].reply = Reply(400, "Token expired")
        /\ ProperlySigned(lg[v].data)
        /\ lg[v].data.timestamp = now - 301
        /\ lg[w].reply.status = 200
        /\ lg[w].data.timestamp = now - 299

\* C7 as stated: the update of an existing Account overwrites email,
\* first_name, last_name and subaccount id with the payload's values
\* unconditionally, a key the payload does not carry giving the empty value
\* (as on creation) instead of keeping the stored one.
C7_UnconditionalOverwrite ==
    [][\A w \in LoginWorkers :
         LoginUpdate(w)
            => \E row \in accounts' :
                 /\ row.id = lg[w].account.id
                 /\ \A f \in ProfileFields :
                      row[f] = (IF f \in lg[w].data.has THEN lg[w].data[f] ELSE "")]_vars

\* C7 as amended: the update sets each of the four fields to the payload's
\* value when the payload carries the key, and otherwise to the value the
\* handler read from the Account (the stored value is kept).
C7_MergeIfPresent ==
    [][\A w \in LoginWorkers :
         LoginUpdate(w)
            => \E row \in accounts' :
                 /\ row.id = lg[w].account.id
                 /\ row.unique_id = lg[w].data.unique_id
                 /\ \A f \in ProfileFields :
                      row[f] = (IF f \in lg[w].data.has THEN lg[w].data[f]
                                ELSE lg[w].account[f])]_vars

\* C7 witness: a notification without email and subaccount id was accepted for
\* the existing Account, which keeps both and has the payload's names.
C7_Witness ==
    \E w \in LoginWorkers, a \in accounts :
        /\ lg[w].reply.status = 200
        /\ lg[w].data.has = PartialKeys \cup {"signature"}
        /\ a.unique_id = lg[w].data.unique_id
        /\ a.user_email = ACCT_A.user_email
        /\ a.bridge_subaccount_id = ACCT_A.bridge_subaccount_id
        /\ a.first_name = lg[w].data.first_name

\* C8: the store never holds two Account rows with one unique_id, and holds
\* one for the unique_id of every accepted notification once it was upserted.
C8_OneAccountPerUid ==
    /\ \A a, b \in accounts : a.unique_id = b.unique_id => a = b
    /\ \A w \in LoginWorkers :
         (lg[w].pc = "record" \/ lg[w].reply.status = 200)
            => Cardinality({a \in accounts : a.unique_id = lg[w].data.unique_id}) = 1

\* C8 witness: one worker has inserted the Account of a unique_id while another
\* worker, which found no such Account, is about to insert it too.
C8_Witness ==
    \E v, w \in LoginWorkers :
        /\ lg[v].pc = "create"
        /\ lg[w].created
        /\ lg[w].data.unique_id = lg[v].data.unique_id

\* C9: the step that answers a notification 200 'OK' appends exactly one
\* AccessLog entry with success=true and exactly one SyncTask of type user and
\* status pending, both for the Account of the notification's unique_id; no
\* other step adds a row, so n accepted notifications leave n of each.
C9_Rows ==
    /\ Len(logs) = Len(tasks)
    /\ \A i \in 1..Len(logs) :
         /\ logs[i].success
         /\ tasks[i].task_type = "U"
         /\ tasks[i].status = "P"
         /\ tasks[i].account = logs[i].account
         /\ \E a \in accounts : a.id = logs[i].account

C9_Step ==
    /\ \A w \in LoginWorkers :
         (lg'[w] # lg[w] /\ lg'[w].reply.status = 200)
            => /\ lg'[w].reply = Reply(200, "OK")
               /\ \E a \in accounts :
                    /\ a.unique_id = lg[w].data.unique_id
                    /\ logs' = Append(logs, [account |-> a.id, success |-> TRUE,
                                             error_message |-> ""])
                    /\ tasks' = Append(tasks, [account |-> a.id, task_type |-> "U",
                                               status |-> "P", error_message |-> "",
                                               started_at |-> NoTime,
                                               completed_at |-> NoTime])
    /\ (logs' # logs \/ tasks' # tasks)
          => \E w \in LoginWorkers : lg'[w] # lg[w] /\ lg'[w].reply.status = 200

\* C9: each accepted notification is answered 200 'OK' and appends exactly one
\* successful AccessLog entry and one pending SyncTask of type user for its
\* Account.
C9_OneLogOneTask == [] C9_Rows /\ [][C9_Step]_vars

\* C9 witness: two notifications for one unique_id were answered 200 and the
\* tables hold two AccessLog entries and two SyncTasks for its Account.
C9_Witness ==
    /\ \A w \in LoginWorkers : lg[w].reply = Reply(200, "OK")
    /\ lg["l1"].data.unique_id = lg["l2"].data.unique_id
    /\ Len(logs) = 2
    /\ Len(tasks) = 2
    /\ logs[1].account = logs[2].account

-----------------------------------------------------------------------------
(* Claims about the Authorization Endpoint *)

\* the identifier state carries: what follows the first '|' of the decoded
\* state, or the whole decoded state when it has an '@' or more than 10
\* characters (otherwise none)
StateId(state) ==
    LET d == unquote(state) IN
    IF Contains(d, "|") THEN SubSeq(d, IndexOf(d, "|") + 1, Len(d))
    ELSE IF Contains(d, "@") \/ Len(d) > 10 THEN d
    ELSE NoStr

\* state names an Account
StateNamesAccount(state) == \E a \in accounts : a.unique_id = StateId(state)

\* the session has an authenticated principal
HasPrincipal == \E u \in users : u.username = session.user

\* C10: a request with all parameters, no account id and no unique_id in its
\* session, a state that names no Account and no authenticated principal is
\* answered forbidden and creates no AuthorizationCode; and whenever a code
\* is created it is for an Account that the session's account id, the
\* session's unique_id, the state or the principal's email identifies.
C10_Step ==
    /\ (/\ azResp' # azResp
        /\ azResp'.req.has = AllParams
        /\ session.account_id = NoId
        /\ session.unique_id = NoStr
        /\ ~StateNamesAccount(azResp'.req.state)
        /\ ~HasPrincipal)
          => azResp'.status = 403 /\ azResp'.code = NoCode /\ codes' = codes
    /\ codes' # codes
          => \E c \in codes' \ codes, a \in accounts :
               /\ codes' = codes \cup {c}
               /\ c.code = azResp'.code
               /\ c.account = a.id
               /\ \/ a.id = session.account_id
                  \/ a.unique_id = session.unique_id
                  \/ a.unique_id = StateId(azResp'.req.state)
                  \/ \E u \in users : u.username = session.user /\ u.email = a.user_email

\* C10: the Authorization Endpoint mints a code only for a request whose
\* identity is recovered, and answers forbidden, minting nothing, when the
\* session, the state and the principal identify no one.
C10_NoIdentityNoCode == [][C10_Step]_vars

\* C10 witness: with an empty session, a request whose state names an unknown
\* id was answered forbidden and no code exists.
C10_Witness ==
    /\ azResp.status = 403
    /\ azResp.req.has = AllParams
    /\ azResp.req.state = PATH \o <<"|">> \o UID_X
    /\ session = NoSession
    /\ codes = {}

\* the Authorization Endpoint answers a request in this step, with success
AuthorizeAnswers == azResp' # azResp
AuthorizeSucceeds == AuthorizeAnswers /\ azResp'.status \in {200, 302}

\* account a is the one the request's identity resolves to: by the session's
\* account id, else by the session's unique_id, else by the identifier in
\* state, else by the principal's email
Recovered(a, state) ==
    IF session.account_id # NoId THEN a.id = session.account_id
    ELSE IF session.unique_id # NoStr THEN a.unique_id = session.unique_id
    ELSE IF StateNamesAccount(state) THEN a.unique_id = StateId(state)
    ELSE \E u \in users : u.username = session.user /\ u.email = a.user_email

C11_Step ==
    AuthorizeSucceeds
       => \E c \in codes' \ codes, a \in accounts :
            /\ codes' = codes \cup {c}
            /\ \A d \in codes : d.code # c.code /\ d.id # c.id
            /\ ~c.used
            /\ c.account = a.id
            /\ Recovered(a, azResp'.req.state)
            /\ c.client_id = azResp'.req.client_id
            /\ c.expires_at = now + 300
            /\ azResp'.code = c.code
            /\ azResp'.url.code = c.code
            /\ azResp'.url.base = azResp'.req.redirect_uri

\* C11: every successful Authorization Endpoint request creates exactly one new
\* AuthorizationCode, with used=false, the recovered Account, the request's
\* client_id and expires_at five minutes after the request, and the URL that
\* is loaded at redirect_uri carries that code's value.
C11_MintsOneCode == [][C11_Step]_vars

\* C11 witness: a request of the client 'other' whose state names Account B was
\* answered with a redirect to its redirect_uri carrying the code minted for B.
C11_Witness ==
    /\ azResp.status = 302
    /\ azResp.req.client_id = "other"
    /\ azResp.url.base = <<"cb2">>
    /\ \E c \in codes :
         /\ c.code = azResp.url.code
         /\ c.client_id = "other"
         /\ c.account = ACCT_B.id
         /\ c.expires_at = now + 300
         /\ ~c.used

-----------------------------------------------------------------------------
(* Further claims about the Token Endpoint *)

\* worker w answers its request with success in this step
TokenSucceeds(w) == tk'[w] # tk[w] /\ tk'[w].reply.status = 200

C12_Step ==
    \A w \in TokenWorkers :
        TokenSucceeds(w)
           => \E k \in tokens' \ tokens, c \in codes, a \in auths :
                /\ tokens' = tokens \cup {k}
                /\ \A j \in tokens : j.token # k.token /\ j.id # k.id
                /\ c.code = tk[w].code
                /\ k.account = c.account
                /\ a.client_id = tk[w].auth_header.parts[1]
                /\ a.client_secret = tk[w].auth_header.parts[2]
                /\ k.client_id = a.client_id
                /\ k.expires_at = now + 3600
                /\ tk'[w].reply.access_token = k.token
                /\ tk'[w].reply.token_type = "Bearer"
                /\ tk'[w].reply.expires_in = 3600

\* C12: a successful Token Endpoint request creates exactly one AccessToken,
\* for the redeemed code's Account and the authenticated client's id, expiring
\* one hour after the exchange, and answers with that token's value,
\* token_type Bearer and expires_in 3600.
C12_MintsOneToken == [][C12_Step]_vars

\* C12 witness: a request was just answered 200 with the value of a stored
\* token that expires in an hour and belongs to the Account of its code.
C12_Witness ==
    \E w \in TokenWorkers, k \in tokens, c \in codes :
        /\ tk[w].reply = TokenReply(200, "", k.token, 3600)
        /\ tk[w].reply.token_type = "Bearer"
        /\ k.expires_at = now + 3600
        /\ k.client_id = AUTH_1.client_id
        /\ c.code = tk[w].code
        /\ c.used
        /\ k.account = c.account

\* the credentials of a header are bad: they do not decode into
\* client_id:client_secret, or no AuthClient has the client_id, or that
\* AuthClient is inactive, or its secret is another
BadCredentials(hdr) ==
    \/ Len(hdr.parts) # 2
    \/ /\ Len(hdr.parts) = 2
       /\ \/ ~\E a \in auths : a.client_id = hdr.parts[1]
          \/ \E a \in auths : a.client_id = hdr.parts[1] /\ ~a.is_active
          \/ \E a \in auths : a.client_id = hdr.parts[1] /\ a.client_secret # hdr.parts[2]

C13_Step ==
    \A w \in TokenWorkers :
        (/\ TakesTokenRequest(w)
         /\ tk'[w].auth_header.present
         /\ tk'[w].code # NoCode
         /\ BadCredentials(tk'[w].auth_header))
           => /\ tk'[w].pc = "done"
              /\ tk'[w].reply = TokenReply(403, "Invalid credentials", 0, 0)
              /\ codes' = codes
              /\ tokens' = tokens

\* C13: a Token Endpoint request (with a header and a code) whose Basic
\* credentials do not decode, name no AuthClient, name an inactive AuthClient
\* or carry a wrong secret receives one and the same forbidden response, and
\* it neither marks the presented code used nor mints an AccessToken.
C13_BadCredentialsForbidden == [][C13_Step]_vars

\* C13 witness: the client was deactivated after a code was minted; its
\* request with its own secret and that unused, unexpired code was answered
\* forbidden, the code is still unused and no token exists.
C13_Witness ==
    \E c \in codes :
        /\ tk["w1"].reply = TokenReply(403, "Invalid credentials", 0, 0)
        /\ tk["w1"].auth_header = VALID_BASIC
        /\ tk["w1"].code = c.code
        /\ ~c.used
        /\ c.expires_at > now
        /\ tokens = {}
        /\ \E a \in auths : a.client_id = AUTH_1.client_id /\ ~a.is_active

-----------------------------------------------------------------------------
(* Further claims about the UserInfo Endpoint *)

\* the header is 'Bearer <token>' for a stored AccessToken that has not expired
BearsLiveToken(hdr) ==
    /\ hdr.present
    /\ Len(hdr.parts) = 2
    /\ hdr.parts[1] = "Bearer"
    /\ \E k \in tokens : k.token = hdr.parts[2] /\ now < k.expires_at

C14_Step ==
    uiResp' # uiResp
       => /\ IF BearsLiveToken(uiResp'.hdr)
             THEN /\ uiResp'.status = 200
                  /\ \E k \in tokens, a \in accounts :
                       /\ k.token = uiResp'.hdr.parts[2]
                       /\ a.id = k.account
                       /\ uiResp'.claims = Claims(a)
             ELSE /\ uiResp'.status = 403
                  /\ uiResp'.claims = NoClaims
          /\ UNCHANGED <<auths, accounts, codes, tokens, session>>

\* C14: the UserInfo Endpoint returns claims if and only if the header is
\* 'Bearer <token>' for a stored AccessToken with now < expires_at, whether or
\* not the Account or the AuthClient has been deactivated since; every other
\* request receives forbidden.
C14_ValidityIsExpiryOnly == [][C14_Step]_vars

\* C14 witness: claims were returned for a token after both its Account and
\* the AuthClient it was minted for had been deactivated.
C14_Witness ==
    \E k \in tokens, a \in accounts :
        /\ uiResp.status = 200
        /\ uiResp.hdr = BearerHeader("Bearer", k.token)
        /\ a.id = k.account
        /\ ~a.is_active
        /\ uiResp.claims.uid = a.unique_id
        /\ ActiveAuths = {}
        /\ now < k.expires_at

-----------------------------------------------------------------------------
(* Claims about the Session Bridge *)

\* the Session Bridge answers a request in this step
BridgeAnswers == brResp' # brResp

\* the active Accounts with a unique_id
ActiveAccounts(uid) == {a \in accounts : a.unique_id = uid /\ a.is_active}

\* C15: for a unique_id that has no active Account the Session Bridge answers
\* with a not-found response (404, not the bad-request 400), appends no
\* AccessLog entry, establishes no session and issues no redirect.
C15_NotFoundResponse ==
    [][(BridgeAnswers /\ ActiveAccounts(brResp'.unique_id) = {})
          => /\ brResp'.status = 404
             /\ logs' = logs
             /\ session' = session
             /\ users' = users]_vars

C16_Step ==
    \A a \in accounts :
        (BridgeAnswers /\ a \in ActiveAccounts(brResp'.unique_id))
           => /\ brResp'.status = 302
              /\ brResp'.subdomain = a.bridge_subaccount_id
              /\ unquote(brResp'.state) = a.unique_id
              /\ ~Contains(brResp'.state, "@")
              /\ ~Contains(brResp'.state, "|")
              /\ session'.account_id = a.id
              /\ session'.unique_id = a.unique_id

-----------------------------------------------------------------------------
(* Further claims about the Authorization Endpoint *)

C17_Step ==
    (AuthorizeAnswers /\ azResp'.req.has # AllParams)
       => /\ azResp'.status = 400
          /\ azResp'.code = NoCode
          /\ codes' = codes
          /\ session' = session
          /\ users' = users

\* C17: an Authorization Endpoint request that lacks one of client_id,
\* redirect_uri and state receives bad request, creates no AuthorizationCode
\* and leaves the session and its principal as they were.
C17_MissingParameter == [][C17_Step]_vars

\* C17 witness: on a session the Session Bridge had bound, a request without
\* redirect_uri was answered 400; the session is still bound and no code exists.
C17_Witness ==
    /\ azResp.status = 400
    /\ azResp.req.has = AllParams \ {"redirect_uri"}
    /\ session.account_id = ACCT_A.id
    /\ session.user = UID_A
    /\ codes = {}

\* the request carries an identifier: the session's account id or unique_id,
\* a value in state, or the email of an authenticated principal
IdentifierPresent(state) ==
    \/ session.account_id # NoId
    \/ session.unique_id # NoStr
    \/ StateId(state) # NoStr
    \/ HasPrincipal

\* C18: the Authorization Endpoint never answers not-found; when an identifier
\* is present and no Account matches, the response is forbidden and no
\* AuthorizationCode is created.
C18_NeverNotFound ==
    [][AuthorizeAnswers
          => /\ azResp'.status # 404
             /\ (/\ azResp'.req.has = AllParams
                 /\ IdentifierPresent(azResp'.req.state)
                 /\ ~\E a \in accounts : Recovered(a, azResp'.req.state))
                   => azResp'.status = 403 /\ codes' = codes]_vars

\* the part of the URL-decoded state before its first '|' (all of it when it
\* has none)
StatePath(state) ==
    LET d == unquote(state)
    IN  IF Contains(d, "|") THEN SubSeq(d, 1, IndexOf(d, "|") - 1) ELSE d

C19_Step ==
    AuthorizeSucceeds
       => \E c \in codes' \ codes, a \in accounts :
            /\ a.id = c.account
            /\ IF Len(StatePath(azResp'.req.state)) > 0
                  /\ StatePath(azResp'.req.state)[1] = "/"
                  /\ a.bridge_subaccount_id # ""
               THEN azResp'.status = 200 /\ azResp'.kind = "html"
               ELSE azResp'.status = 302 /\ azResp'.kind = "redirect"
            /\ azResp'.url.base = azResp'.req.redirect_uri
            /\ azResp'.url.code = c.code
            /\ unquote(azResp'.url.state) = azResp'.req.state

\* C19: after minting the code the Authorization Endpoint answers with the
\* HTML interstitial exactly when the decoded state before the first '|'
\* starts with '/' and the Account has a non-empty subaccount id, and otherwise
\* with a redirect to redirect_uri?code=<code>&state=<state>; both carry the
\* code just minted and the state received.
C19_InterstitialOrRedirect == [][C19_Step]_vars

\* C19 witness: state was a path, but the Account of the session has no
\* subaccount id, and the answer was the redirect with the minted code.
C19_Witness ==
    /\ azResp.status = 302
    /\ azResp.kind = "redirect"
    /\ azResp.req.state = PATH
    /\ azResp.url.state = <<"%", "2", "F", "l">>
    /\ \E c \in codes : c.code = azResp.url.code /\ c.account = ACCT_B.id
    /\ ACCT_B.bridge_subaccount_id = ""

-----------------------------------------------------------------------------
(* Claims about the configuration fault *)

\* the Legacy Callback Endpoint answers a request in this step
CallbackAnswers == cbResp' # cbResp

\* a client-error response
ClientError(status) == status >= 400 /\ status <= 499

\* C20: when no AuthClient has is_active=true, Login Ingestion, the
\* Authorization Endpoint and the Legacy Callback Endpoint each answer with a
\* client-error response, and no Account, AccessLog, SyncTask or
\* AuthorizationCode is created or changed.
C20_NoActiveClient ==
    [][ActiveAuths = {}
          => /\ \A w \in LoginWorkers :
                  TakesNotification(w)
                     => /\ lg'[w].pc = "done"
                        /\ ClientError(lg'[w].reply.status)
                        /\ UNCHANGED <<accounts, logs, tasks, codes>>
             /\ AuthorizeAnswers
                  => /\ ClientError(azResp'.status)
                     /\ UNCHANGED <<accounts, logs, tasks, codes>>
             /\ CallbackAnswers
                  => /\ ClientError(cbResp'.status)
                     /\ UNCHANGED <<accounts, logs, tasks, codes>>]_vars

-----------------------------------------------------------------------------
(* The Legacy Callback Endpoint, while an operator switches clients *)

\* the field mappings the platform signs: an id without reserved characters
\* (with an email, whose '@' is escaped), an id with '@', an id of an inactive
\* Account, an id no Account has, and a mapping without user_id
CallbackMappings ==
    {<<<<"user_id", UID_A>>, <<"email", <<"a", "@", "o">>>>>>,
     <<<<"user_id", UID_B>>>>,
     <<<<"user_id", UID_C>>>>,
     <<<<"user_id", UID_X>>>>,
     <<<<"email", <<"a", "@", "o">>>>>>}

\* the tokens sent: each mapping signed with the secret of AUTH_1, one signed
\* with the secret of AUTH_2, one whose fields were changed after signing, one
\* that is not base64, and none
SentTokens ==
    {CallbackToken(sign_token(data, AUTH_1.client_secret)) : data \in CallbackMappings}
    \cup {CallbackToken(sign_token(<<<<"user_id", UID_A>>>>, AUTH_2.client_secret)),
          CallbackToken(urlencode(<<<<"user_id", UID_C>>>>) \o SIGNATURE_MARKER
                          \o <<Hmac(AUTH_1.client_secret,
                                    urlencode(<<<<"user_id", UID_A>>>>))>>),
          UndecodableToken, NoToken}

NextCallback ==
    \/ \E token \in SentTokens : BridgeSsoCallback(token)
    \/ \E auth \in {AUTH_1, AUTH_2} : \E flag \in BOOLEAN : AdminSetAuthActive(auth.id, flag)

SpecCallback == InitAuthz /\ [][NextCallback]_vars

-----------------------------------------------------------------------------
(* Claims about the Legacy Callback Endpoint *)

\* the token base64-decodes and verifies under the active client's secret
DecodesAndVerifies(token) ==
    /\ token.present
    /\ token.decodes
    /\ ActiveAuths # {}
    /\ verify_token(token.text, First(ActiveAuths).client_secret).ok

\* the field mapping that was signed: the pairs of the querystring, with the
\* escapes of each value undone
SignedFields(token) ==
    {<<Chars(kv[1]), unquote(Chars(kv[2]))>> :
        kv \in ParseQuery(SubSeq(token.text, 1, (CHOOSE i \in Markers(token.text) : TRUE) - 1))}

\* the Accounts the token names in user_id
NamedAccounts(token) ==
    {a \in accounts : <<<<"user_id">>, a.unique_id>> \in SignedFields(token)}

\* C21: the Legacy Callback Endpoint redirects to
\* <platform-base-url>/<subaccount_id>/learner/courses and appends one AccessLog
\* entry with success=true exactly when its token base64-decodes, verifies
\* under the active client's secret and names an existing Account in user_id;
\* a token that fails decoding or verification receives bad request, with no
\* AccessLog entry and no redirect.
C21_Step ==
    CallbackAnswers =>
        LET token == cbResp'.token
            named == IF DecodesAndVerifies(token) THEN NamedAccounts(token) ELSE {}
        IN  /\ cbResp'.status = 302 <=> named # {}
            /\ cbResp'.status = 302
                 => \E a \in named :
                      /\ cbResp'.base = First(ActiveAuths).bridge_base_url
                      /\ cbResp'.subaccount = a.bridge_subaccount_id
                      /\ logs' = Append(logs, [account |-> a.id, success |-> TRUE,
                                               error_message |-> ""])
            /\ ~DecodesAndVerifies(token)
                 => cbResp'.status = 400 /\ logs' = logs

C21_CallbackRedirect == [][C21_Step]_vars

\* C22: a Legacy Callback request whose token verifies but whose user_id
\* matches no Account receives a not-found error response, and no AccessLog
\* entry is appended.
C22_Step ==
    (/\ CallbackAnswers
     /\ DecodesAndVerifies(cbResp'.token)
     /\ \E kv \in SignedFields(cbResp'.token) : kv[1] = <<"user_id">>
     /\ NamedAccounts(cbResp'.token) = {})
        => cbResp'.status = 404 /\ logs' = logs

C22_UnknownUserNotFound == [][C22_Step]_vars

-----------------------------------------------------------------------------
(* The token codec on its own: sign_token, an alteration in transit, verify_token *)

\* the secrets of the two clients
Secrets == {AUTH_1.client_secret, AUTH_2.client_secret}

\* the names of the fields signed
FieldNames == {"user_id", "email", "signature"}

\* field mappings (ordered, one pair per key): empty, plain values, values with
\* '@', '&', '=' and ' ', an empty value, and a field called signature
CodecMappings ==
    {<<>>,
     <<<<"user_id", UID_C>>>>,
     <<<<"user_id", UID_C>>, <<"email", <<>>>>>>,
     <<<<"user_id", UID_B>>>>,
     <<<<"user_id", UID_C>>, <<"email", <<"a", "&", "b">>>>>>,
     <<<<"user_id", UID_C>>, <<"email", <<"a", "=", "b">>>>>>,
     <<<<"user_id", UID_C>>, <<"email", <<"a", " ", "b">>>>>>,
     <<<<"user_id", UID_C>>, <<"signature", <<"s">>>>>>}

\* the characters an alteration puts in place of another
AlteredChars == {"z", "0"}

\* the places of the characters of field values in a signed token
ValuePositions(token) ==
    {i \in 1..(Len(token) - 4) :
        token[i] \notin {Sym("&"), Sym("=")} \cup {Sym(k) : k \in FieldNames}}

\* lines 33-41 applied to the run's mapping
CodecSign ==
    /\ codec.pc = "input"
    /\ codec' = [codec EXCEPT !.pc = "signed",
                              !.token = sign_token(codec.data, codec.secret)]
    /\ UNCHANGED <<now, auths, accounts, users, logs, tasks, codes, tokens, session,
                   tk, lg, azResp, uiResp, brResp, cbResp, hcResp>>

\* the token on its way back: one character of a field value, or the
\* signature, is changed
CodecAlter ==
    /\ codec.pc = "signed"
    /\ \/ \E i \in ValuePositions(codec.token) :
          \E c \in AlteredChars :
            /\ Sym(c) # codec.token[i]
            /\ codec' = [codec EXCEPT !.pc = "altered", !.token[i] = Sym(c)]
       \/ codec' = [codec EXCEPT !.pc = "altered",
                                 !.token[Len(codec.token)] = Hmac("", <<>>)]
    /\ UNCHANGED <<now, auths, accounts, users, logs, tasks, codes, tokens, session,
                   tk, lg, azResp, uiResp, brResp, cbResp, hcResp>>

\* the token on its way back, no longer of the form sign_token gives: cut
\* before the marker, with a signature that is no digest, with a second marker
\* and signature after the first, or empty
CodecMangle ==
    /\ codec.pc = "signed"
    /\ LET querystring == urlencode(codec.data) IN
       \E token \in {querystring,
                      querystring \o SIGNATURE_MARKER \o Text(<<"z", "z">>),
                      codec.token \o SIGNATURE_MARKER
                          \o <<Hmac(codec.secret, codec.token)>>,
                      <<>>} :
          codec' = [codec EXCEPT !.pc = "mangled", !.token = token]
    /\ UNCHANGED <<now, auths, accounts, users, logs, tasks, codes, tokens, session,
                   tk, lg, azResp, uiResp, brResp, cbResp, hcResp>>

\* lines 44-65 applied to the token, under the secret it was signed with or
\* under another
CodecVerify ==
    /\ codec.pc \in {"signed", "altered", "mangled"}
    /\ \E key \in Secrets :
         codec' = [codec EXCEPT
                     !.pc = CASE codec.pc = "signed" -> "verified"
                              [] codec.pc = "altered" -> "verified altered"
                              [] OTHER -> "verified mangled",
                     !.key = key,
                     !.result = verify_token(codec.token, key)]
    /\ UNCHANGED <<now, auths, accounts, users, logs, tasks, codes, tokens, session,
                   tk, lg, azResp, uiResp, brResp, cbResp, hcResp>>

InitCodec ==
    /\ now = StartTime
    /\ auths = {AUTH_1, AUTH_2}
    /\ accounts = {ACCT_A, ACCT_B, ACCT_C}
    /\ users = {}
    /\ logs = <<>>
    /\ tasks = <<>>
    /\ codes = {}
    /\ tokens = {}
    /\ session = NoSession
    /\ tk = [w \in TokenWorkers |-> IdleToken]
    /\ lg = [w \in LoginWorkers |-> IdleLogin]
    /\ azResp = AuthorizeReply(AuthorizeRequest({}, "", NoStr, NoStr), 0, "", "", NoCode)
    /\ uiResp = UserInfoReply(NoHeader, 0, "", NoClaims)
    /\ brResp = BridgeReply(NoStr, 0, "", "", NoStr)
    /\ cbResp = CallbackReply(NoToken, 0, "", "", "")
    /\ hcResp = NoReply
    /\ codec \in {CodecRun(data, secret, "input", <<>>, None) :
                    data \in CodecMappings, secret \in Secrets}

NextCodec ==
    \/ CodecSign
    \/ CodecAlter
    \/ CodecMangle
    \/ CodecVerify

SpecCodec == InitCodec /\ [][NextCodec]_vars

-----------------------------------------------------------------------------
(* Claims about the token codec *)

\* a field mapping as verify_token would have to return it
AsDict(data) == {<<<<Sym(data[i][1])>>, Text(data[i][2])>> : i \in 1..Len(data)}

\* C23: the codec round-trips: for every field mapping f (values that need URL
\* escaping included) and every secret s, verify_token(sign_token(f, s), s)
\* returns exactly f; and changing any character of the signature or of any
\* field value of the signed token makes verify_token fail.
C23_RoundTrip ==
    /\ (codec.pc = "verified" /\ codec.key = codec.secret)
         => codec.result.ok /\ codec.result.data = AsDict(codec.data)
    /\ (codec.pc = "verified altered" /\ codec.key = codec.secret) => ~codec.result.ok

\* verify_token has been applied to the run's token
CodecVerified == codec.pc \in {"verified", "verified altered", "verified mangled"}

\* the token has exactly one '&signature=' and what follows it is the hex
\* digest of what precedes it, under the secret given to verify_token
WellSigned(token, key) ==
    \E i \in Markers(token) :
        /\ Markers(token) = {i}
        /\ SubSeq(token, i + 3, Len(token)) = <<<<"hmac", key, SubSeq(token, 1, i - 1)>>>>

\* C31: verify_token fails closed and never raises: for a token with no
\* '&signature=' marker, with more than one, or with a signature part that is
\* not the expected hex digest, it returns failure (no field mapping), for
\* every secret.
C31_FailsClosed ==
    (CodecVerified /\ ~WellSigned(codec.token, codec.key))
        => codec.result = [ok |-> FALSE, data |-> {}]

\* C31 witness: a token that sign_token made for a mapping with a field called
\* signature has two markers, the digest after the last one is the right one
\* for what precedes it, and verify_token returned failure.
C31_Witness ==
    /\ codec.pc = "verified"
    /\ codec.key = codec.secret
    /\ Cardinality(Markers(codec.token)) = 2
    /\ codec.token[Len(codec.token)]
          = <<"hmac", codec.key, SubSeq(codec.token, 1, Len(codec.token) - 4)>>
    /\ codec.result = [ok |-> FALSE, data |-> {}]

-----------------------------------------------------------------------------
(* Claims about error handling *)

\* the responses the framework makes when an exception leaves a handler:
\* Http404 becomes 404 "Not Found", any other exception 500 "Server Error"
FrameworkMade(reply) ==
    \/ reply.status = 404 /\ reply.body = "Not Found"
    \/ reply.status >= 500

\* C24: every public endpoint answers every request with a definite success or
\* failure response produced by its own handling: no lookup failure or internal
\* exception leaves a handler as an unhandled fault, in any store state (also
\* when an identifier matches no Account, or a principal's email matches more
\* than one Account, during identity recovery in the Authorization Endpoint).
C24_NoUnhandledFault ==
    /\ ~FrameworkMade(azResp)
    /\ ~FrameworkMade(cbResp)
    /\ ~FrameworkMade(brResp)
    /\ ~FrameworkMade(uiResp)
    /\ \A w \in LoginWorkers : ~FrameworkMade(lg[w].reply)
    /\ \A w \in TokenWorkers : ~FrameworkMade(tk[w].reply)

-----------------------------------------------------------------------------
(* The health check, from an empty store on *)

InitHealth ==
    /\ now = StartTime
    /\ auths = {AUTH_1, AUTH_2}
    /\ accounts = {}
    /\ users = {}
    /\ logs = <<>>
    /\ tasks = <<>>
    /\ codes = {}
    /\ tokens = {}
    /\ session = NoSession
    /\ tk = [w \in TokenWorkers |-> IdleToken]
    /\ lg = [w \in LoginWorkers |-> IdleLogin]
    /\ azResp = AuthorizeReply(AuthorizeRequest({}, "", NoStr, NoStr), 0, "", "", NoCode)
    /\ uiResp = UserInfoReply(NoHeader, 0, "", NoClaims)
    /\ brResp = BridgeReply(NoStr, 0, "", "", NoStr)
    /\ cbResp = CallbackReply(NoToken, 0, "", "", "")
    /\ hcResp = NoReply
    /\ codec = NoCodec

NextHealth ==
    \/ HealthCheck
    \/ \E flag \in BOOLEAN : AdminSetAuthActive(AUTH_1.id, flag)
    \/ \E data \in FaultPayloads : LoginBegin("l1", data)
    \/ LoginCreate("l1")
    \/ LoginUpdate("l1")
    \/ LoginRecord("l1")
    \/ AuthenticateUser(UID_A)

SpecHealth == InitHealth /\ [][NextHealth]_vars

-----------------------------------------------------------------------------
(* Claims about the health check *)

\* C25: GET /health/ answers 200 'OK' in every reachable state (also with no
\* active client and no Accounts) and changes nothing in the store or the
\* session.
C25_Step ==
    hcResp' # hcResp
        => /\ hcResp' = [status |-> 200, body |-> "OK"]
           /\ UNCHANGED <<now, auths, accounts, users, logs, tasks, codes, tokens,
                          session>>

C25_HealthAlwaysOK == [](ENABLED HealthCheck) /\ [][C25_Step]_vars

\* C25 witness: the probe was answered with 200 'OK' while no client was active
\* and the store held no Account.
C25_Witness ==
    /\ hcResp = [status |-> 200, body |-> "OK"]
    /\ ActiveAuths = {}
    /\ accounts = {}

-----------------------------------------------------------------------------
(* Identity recovery while an operator deletes an Account and a login brings it back *)

\* a notification for the unique_id of ACCT_A
RecoveryPayloads == {Sign(Body(AllKeys, UID_A, 1, now), AUTH_1.client_secret)}

NextRecovery ==
    \/ AuthenticateUser(UID_A)
    \/ AdminDeleteAccount(ACCT_A.id)
    \/ \E data \in RecoveryPayloads : LoginBegin("l1", data)
    \/ LoginCreate("l1")
    \/ LoginUpdate("l1")
    \/ LoginRecord("l1")
    \/ \E state \in {STATE_A, STATE_B, NoStr} :
         Authorize(AuthorizeRequest(AllParams, "cid1", <<"cb">>, state))

SpecRecovery == InitAuthz /\ [][NextRecovery]_vars

-----------------------------------------------------------------------------
(* Claims about identity recovery and the session *)

\* the Accounts the first of the four strategies that resolves any gives: the
\* session's account id, the session's unique_id, the identifier in state, the
\* principal's email
FirstResolving(state) ==
    LET byId == {a \in accounts : session.account_id # NoId /\ a.id = session.account_id}
        byUid == {a \in accounts :
                     session.unique_id # NoStr /\ a.unique_id = session.unique_id}
        byState == {a \in accounts : StateId(state) # NoStr /\ a.unique_id = StateId(state)}
        byEmail == {a \in accounts :
                       \E u \in users : u.username = session.user /\ u.email = a.user_email}
    IN  IF byId # {} THEN byId
        ELSE IF byUid # {} THEN byUid
        ELSE IF byState # {} THEN byState
        ELSE byEmail

\* C26: the Authorization Endpoint recovers the Account by trying, in this
\* order, the session's account id, the session's unique_id, the identifier
\* decoded from state and the principal's email; the first strategy that
\* resolves an Account wins, and a strategy whose value is present but resolves
\* no Account is passed over in favour of the next one.
C26_Step ==
    (/\ AuthorizeAnswers
     /\ azResp'.req.has = AllParams
     /\ ActiveAuths # {}
     /\ FirstResolving(azResp'.req.state) # {})
        => /\ AuthorizeSucceeds
           /\ \E c \in codes' \ codes : \E a \in FirstResolving(azResp'.req.state) :
                c.account = a.id

C26_FirstResolvingStrategyWins == [][C26_Step]_vars

\* C27: after every successful Authorization Endpoint request the session is
\* terminated: it holds no principal, no account id and no unique_id, so a
\* following request on the same session whose state names no Account is
\* answered forbidden; a failed request does not terminate the session.
C27_Step ==
    /\ AuthorizeSucceeds
         => session' = [account_id |-> 0, unique_id |-> <<>>, user |-> <<>>]
    /\ (AuthorizeAnswers /\ ~AuthorizeSucceeds) => session' = session
    /\ (/\ AuthorizeAnswers
        /\ azResp.status \in {200, 302}
        /\ session = [account_id |-> 0, unique_id |-> <<>>, user |-> <<>>]
        /\ azResp'.req.has = AllParams
        /\ ~StateNamesAccount(azResp'.req.state))
         => azResp'.status = 403 /\ codes' = codes

C27_SuccessTerminatesSession == [][C27_Step]_vars

\* C27 witness: the Session Bridge had bound the session, a request on it was
\* answered with a code, and the session is empty afterwards.
C27_Witness ==
    /\ brResp.status = 302
    /\ azResp.status \in {200, 302}
    /\ \E c \in codes : c.code = azResp.code
    /\ session = [account_id |-> 0, unique_id |-> <<>>, user |-> <<>>]

\* C28: when the Session Bridge issues its redirect, the session already holds
\* the Account's row id and unique_id and its principal is logged in; an
\* Authorization Endpoint request that presents this session before it is
\* terminated resolves that same Account, whatever its state carries.
C28_Step ==
    /\ (BridgeAnswers /\ brResp'.status = 302)
         => \E a \in accounts :
              /\ a.unique_id = brResp'.unique_id
              /\ session'.account_id = a.id
              /\ session'.unique_id = a.unique_id
              /\ \E u \in users' : u.username = session'.user /\ u.email = a.user_email
    /\ (/\ AuthorizeAnswers
        /\ azResp'.req.has = AllParams
        /\ session.account_id # NoId
        /\ ActiveAuths # {})
         => /\ AuthorizeSucceeds
            /\ \E c \in codes' \ codes :
                 /\ c.account = session.account_id
                 /\ c.code = azResp'.code

C28_SessionBoundBeforeRedirect ==
    [](session.account_id # NoId
         => \E a \in accounts : a.id = session.account_id /\ a.unique_id = session.unique_id)
    /\ [][C28_Step]_vars

\* C28 witness: the Session Bridge bound the session to ACCT_A, and a request
\* with an empty state was answered with a code for ACCT_A.
C28_Witness ==
    /\ brResp.status = 302
    /\ brResp.unique_id = UID_A
    /\ azResp.status \in {200, 302}
    /\ azResp.req.state = NoStr
    /\ \E c \in codes : c.code = azResp.code /\ c.account = ACCT_A.id

-----------------------------------------------------------------------------
(* Claims about concurrent notifications *)

\* worker w has answered its notification with success
Answered(w) == lg[w].pc = "done" /\ lg[w].reply.status = 200

\* Account a is what notification `last` leaves when it is written after
\* notification `other`: every field `last` carries is its value, and a field
\* only `other` carries is the value of `other`
LastWriterWins(a, last, other) ==
    \A f \in ProfileFields :
        IF f \in last.has THEN a[f] = last[f]
        ELSE f \in other.has => a[f] = other[f]

\* C29: when two accepted notifications for the same unique_id are processed
\* concurrently, the Account afterwards has email, first_name, last_name and
\* subaccount id taken from one and the same notification (the last writer);
\* no interleaving leaves a mix of the two payloads or brings back a value
\* older than both.
C29_LastWriterWins ==
    \A w, v \in LoginWorkers :
        (/\ w # v
         /\ Answered(w)
         /\ Answered(v)
         /\ lg[w].data.unique_id = lg[v].data.unique_id)
            => \A a \in AccountsByUid(lg[w].data.unique_id) :
                 \/ LastWriterWins(a, lg[w].data, lg[v].data)
                 \/ LastWriterWins(a, lg[v].data, lg[w].data)

-----------------------------------------------------------------------------
(* The interstitial page, for the redirect_uri values a request can carry *)

\* https://tenant.bridgeapp.com/cb, https://tenant-safetynow.bridgeapp.com/cb,
\* https://tenant.example.com/cb, https://evil/x.bridgeapp.com, and a
\* redirect_uri without scheme
RedirectUris ==
    {<<SCHEME, "tenant", BRIDGE_DOMAIN, "/cb">>,
     <<SCHEME, "tenant", TENANT_SUFFIX, BRIDGE_DOMAIN, "/cb">>,
     <<SCHEME, "tenant", ".example.com", "/cb">>,
     <<SCHEME, "evil", "/x", BRIDGE_DOMAIN>>,
     <<"cb">>}

\* the path segments of the redirect_uri values
PathPieces == {"/cb", "/x"}

NextInterstitial ==
    \/ \E uid \in {UID_A, UID_B} : AuthenticateUser(uid)
    \/ \E redirect_uri \in RedirectUris : \E state \in {STATE_A, STATE_B, PATH} :
         Authorize(AuthorizeRequest(AllParams, "cid1", redirect_uri, state))

SpecInterstitial == InitAuthz /\ [][NextInterstitial]_vars

-----------------------------------------------------------------------------
(* Claims about the interstitial page *)

\* the first host label of a redirect_uri of the form
\* https://<label>.bridgeapp.com..., and nothing for any other redirect_uri
HostLabel(redirect_uri) ==
    LET ends == {j \in 3..Len(redirect_uri) :
                    /\ redirect_uri[1] = SCHEME
                    /\ redirect_uri[j] = BRIDGE_DOMAIN
                    /\ \A k \in 2..(j - 1) :
                         ~Dotted(redirect_uri[k]) /\ redirect_uri[k] \notin PathPieces}
    IN  IF ends = {} THEN <<>>
        ELSE SubSeq(redirect_uri, 2, (CHOOSE j \in ends : TRUE) - 1)

\* the tenant of the claim
Tenant(redirect_uri, a) ==
    IF HostLabel(redirect_uri) = <<>> THEN <<a.bridge_subaccount_id>>
    ELSE IF Contains(HostLabel(redirect_uri), TENANT_SUFFIX) THEN HostLabel(redirect_uri)
    ELSE HostLabel(redirect_uri) \o <<TENANT_SUFFIX>>

\* C30: in the interstitial branch the visible navigation target is
\* https://<tenant>.bridgeapp.com<path>, where <tenant> is the first host label
\* of redirect_uri when redirect_uri matches https://<label>.bridgeapp.com,
\* with '-safetynow' appended if it is not already there, and the Account's
\* subaccount id when redirect_uri does not match; the hidden frame loads
\* redirect_uri?code=<code>&state=<state>.
C30_Step ==
    (AuthorizeAnswers /\ azResp'.kind = "html")
       => \E c \in codes' \ codes : \E a \in accounts :
            /\ c.account = a.id
            /\ azResp'.target.subdomain = Tenant(azResp'.req.redirect_uri, a)
            /\ azResp'.target.path = StatePath(azResp'.req.state)
            /\ azResp'.url.base = azResp'.req.redirect_uri
            /\ azResp'.url.code = c.code
            /\ unquote(azResp'.url.state) = unquote(azResp'.req.state)

C30_InterstitialTarget == [][C30_Step]_vars

-----------------------------------------------------------------------------
(* The audit trail and the task queue under every endpoint *)

\* the addresses get_client_ip finds: one, and none (no X-Forwarded-For
\* header and no REMOTE_ADDR)
ClientAddresses == {CLIENT_ADDR, NO_ADDR}

\* notifications for an Account that exists and for one that does not, and a
\* notification signed with another secret
AuditPayloads ==
    {Sign(Body(AllKeys, uid, 1, now), AUTH_1.client_secret) : uid \in {UID_A, UID_X}}
    \cup {Sign(Body(AllKeys, UID_A, 2, now), AUTH_2.client_secret)}

\* callback tokens for an Account that exists, for none, and with a signature
\* made with another secret
AuditTokens ==
    {CallbackToken(sign_token(<<<<"user_id", uid>>>>, AUTH_1.client_secret)) :
        uid \in {UID_A, UID_X}}
    \cup {CallbackToken(sign_token(<<<<"user_id", UID_A>>>>, AUTH_2.client_secret))}

NextAudit ==
    \/ \E data \in AuditPayloads, ip \in ClientAddresses :
         LoginBeginFrom("l1", data, ip, NoStore)
    \/ LoginCreate("l1")
    \/ LoginUpdate("l1")
    \/ LoginRecord("l1")
    \/ \E uid \in {UID_A, UID_C} : AuthenticateUser(uid)
    \/ \E token \in AuditTokens : BridgeSsoCallback(token)
    \/ Authorize(AuthorizeRequest(AllParams, "cid1", <<"cb">>, STATE_A))

SpecAudit == InitAuthz /\ [][NextAudit]_vars

\* the Account the Legacy Callback Endpoint looks up for a token it verified
CallbackFinds(token, a) ==
    /\ DecodesAndVerifies(token)
    /\ \E user_id \in UserIds(verify_token(token.text, First(ActiveAuths).client_secret).data) :
         a.unique_id = Chars(user_id)

\* C32: a step leaves every AccessLog entry as it is, in its place, and adds
\* at most one entry at the end; the step that adds one is the step of a
\* Login Ingestion that answers 200 (the entry is for its Account), a Session
\* Bridge request that found an active Account with the unique_id of its
\* path and redirects (the entry is for that Account), or a Legacy Callback
\* request that verified its token, found the Account its user_id names and
\* redirects (the entry is for that Account).
C32_Step ==
    /\ Len(logs') \in {Len(logs), Len(logs) + 1}
    /\ SubSeq(logs', 1, Len(logs)) = logs
    /\ logs' # logs =>
         LET entry == logs'[Len(logs')] IN
         /\ entry.success
         /\ \/ /\ \E w \in LoginWorkers :
                    /\ lg[w].pc = "record"
                    /\ lg'[w].pc = "done"
                    /\ lg'[w].reply.status = 200
                    /\ entry.account = lg[w].account.id
               /\ UNCHANGED <<brResp, cbResp>>
            \/ /\ brResp'.status = 302
               /\ \E a \in accounts :
                    /\ a.is_active
                    /\ a.unique_id = brResp'.unique_id
                    /\ entry.account = a.id
                    /\ session'.account_id = a.id
               /\ UNCHANGED <<lg, cbResp>>
            \/ /\ cbResp'.status = 302
               /\ \E a \in accounts :
                    /\ CallbackFinds(cbResp'.token, a)
                    /\ entry.account = a.id
               /\ UNCHANGED <<lg, brResp, session>>

C32_AppendOnlyAudit == [][C32_Step]_vars

\* C32 witness: the log holds two entries, the first left by the Legacy
\* Callback Endpoint and the second by Login Ingestion for an Account that it
\* created, after the Session Bridge refused an inactive Account's unique_id.
C32_Witness ==
    /\ Len(logs) = 2
    /\ cbResp.status = 302
    /\ logs[1].account = ACCT_A.id
    /\ lg["l1"].reply.status = 200
    /\ lg["l1"].created
    /\ logs[2].account = lg["l1"].account.id
    /\ brResp.status = 400
    /\ brResp.unique_id = UID_C

\* C33: a step leaves every SyncTask as it is, in its place, and adds at most
\* one task at the end; the step that adds one is the step of a Login
\* Ingestion that answers 200, and the task is of type user, pending, never
\* started or completed, without error, for the Account of the notification.
C33_Step ==
    /\ Len(tasks') \in {Len(tasks), Len(tasks) + 1}
    /\ SubSeq(tasks', 1, Len(tasks)) = tasks
    /\ tasks' # tasks =>
         LET task == tasks'[Len(tasks')] IN
         /\ task.task_type = "U"
         /\ task.status = "P"
         /\ task.started_at = NoTime
         /\ task.completed_at = NoTime
         /\ task.error_message = ""
         /\ \E w \in LoginWorkers :
              /\ lg[w].pc = "record"
              /\ lg'[w].pc = "done"
              /\ lg'[w].reply.status = 200
              /\ task.account = lg[w].account.id
              /\ lg[w].account.unique_id = lg[w].data.unique_id

C33_EnqueueOnly == [][C33_Step]_vars

\* C33 witness: a task was queued by an accepted notification and is still
\* pending after the Session Bridge and the Authorization Endpoint each
\* served a request with success.
C33_Witness ==
    /\ Len(tasks) = 1
    /\ tasks[1].status = "P"
    /\ tasks[1].account = ACCT_A.id
    /\ lg["l1"].pc = "idle" \/ lg["l1"].pc = "done"
    /\ brResp.status = 302
    /\ azResp.status \in {200, 302}

-----------------------------------------------------------------------------
(* Codes and tokens when several clients use the service *)

\* the client_id values authorization requests carry: the two clients the
\* service knows, and one it has no OHSAuth row for
ClientIds == {AUTH_1.client_id, AUTH_2.client_id, "other"}

\* the credentials of the two clients
ClientHeaders ==
    {BasicHeader(a.client_id, a.client_secret) : a \in {AUTH_1, AUTH_2}}

NextClients ==
    \/ \E client_id \in ClientIds :
         Authorize(AuthorizeRequest(AllParams, client_id, <<"cb">>, STATE_A))
    \/ \E hdr \in ClientHeaders, code \in CodeValues : TokenLookup("w1", hdr, code)
    \/ TokenRedeem("w1")
    \/ \E a \in {AUTH_1, AUTH_2}, flag \in BOOLEAN : AdminSetAuthActive(a.id, flag)

SpecClients == InitToken /\ [][NextClients]_vars

\* C34: the step of the Token Endpoint that answers 200 mints an AccessToken
\* whose client_id is the client_id recorded on the AuthorizationCode the
\* request consumed.
C34_Step ==
    \A w \in TokenWorkers :
       TokenSucceeds(w) =>
          \A k \in tokens' \ tokens : k.client_id = tk[w].auth_code.client_id

C34_CodeBoundToClient == [][C34_Step]_vars

-----------------------------------------------------------------------------
(* The Authorization Endpoint while an operator deactivates Accounts *)

\* state naming the active Account, naming the deactivated one, and naming none
DeactivationStates == {STATE_A, PATH \o <<"|">> \o UID_C, PATH}

NextDeactivation ==
    \/ \E uid \in {UID_A, UID_C} : AuthenticateUser(uid)
    \/ \E email \in {ACCT_A.user_email, ACCT_C.user_email} : AdminLogin(email)
    \/ \E a \in {ACCT_A, ACCT_C}, flag \in BOOLEAN : AdminSetAccountActive(a.id, flag)
    \/ \E state \in DeactivationStates :
         Authorize(AuthorizeRequest(AllParams, "cid1", <<"cb">>, state))

SpecDeactivation == InitAuthz /\ [][NextDeactivation]_vars

\* C35: every AuthorizationCode a step mints is for an Account that is active
\* when the code is minted.
C35_Step ==
    \A c \in codes' \ codes :
       \E a \in accounts : a.id = c.account /\ a.is_active

C35_NoCodeForInactive == [][C35_Step]_vars

-----------------------------------------------------------------------------
(* Login Ingestion, one request at a time, with and without client address *)

NextAtomic ==
    \/ \E data \in LoginPayloads, ip \in ClientAddresses :
         LoginBeginFrom("l1", data, ip, Store)
    \/ LoginCreate("l1")
    \/ LoginUpdate("l1")
    \/ LoginRecord("l1")

SpecAtomic == InitLogin /\ [][NextAtomic]_vars

\* the request of worker w has been answered, and not with 200
AnsweredNon200(w) == lg[w].pc = "done" /\ lg[w].reply.status # 200

\* C36: when Login Ingestion has answered a request with a non-200 response,
\* the Accounts with all their fields, the AccessLog entries and the SyncTasks
\* are what they were when the request began: a request refused by the first
\* checks changes none of them in its one step, and a request that fails later
\* leaves them as they were stored when it passed those checks.
C36_Unchanged ==
    \A w \in LoginWorkers :
       (AnsweredNon200(w) /\ lg[w].before # NoStore) => Store = lg[w].before

C36_Step ==
    \A w \in LoginWorkers :
       (TakesNotification(w) /\ lg'[w].pc = "done" /\ lg'[w].reply.status # 200)
          => UNCHANGED <<accounts, logs, tasks>>

C36_AllOrNothing == [] C36_Unchanged /\ [][C36_Step]_vars

-----------------------------------------------------------------------------
(* Whose code is minted when the session carries an identity *)

\* C37: while the session carries an Account's row id, the lookup of the
\* Authorization Endpoint gives the same Account for any two values of state,
\* the Account of that row id; and the step that answers a request on such
\* a session with a code mints the code for the Account the session was bound
\* to, also when state names another Account.
C37_SameForAnyState ==
    session.account_id # NoId
       => \A s1, s2 \in AuthorizeStates :
             /\ Candidates(s1) = Candidates(s2)
             /\ Candidates(s1) = {a \in accounts : a.id = session.account_id}

C37_Step ==
    (AuthorizeSucceeds /\ session.account_id # NoId)
       => /\ codes' # codes
          /\ \A c \in codes' \ codes :
               /\ c.code = azResp'.code
               /\ \E a \in accounts :
                    /\ a.id = c.account
                    /\ a.id = session.account_id
                    /\ a.unique_id = session.unique_id

C37_SessionAloneDecides == [] C37_SameForAnyState /\ [][C37_Step]_vars

\* C37 witness: the Session Bridge bound the session to ACCT_A, and a request
\* whose state names ACCT_B was answered with a code for ACCT_A.
C37_Witness ==
    /\ brResp.status = 302
    /\ brResp.unique_id = UID_A
    /\ azResp.status \in {200, 302}
    /\ StateId(azResp.req.state) = ACCT_B.unique_id
    /\ \E c \in codes : c.code = azResp.code /\ c.account = ACCT_A.id

=============================================================================
